---- MODULE Spec2Model ----
(***************************************************************************)
(* Executor core of remoteify: one process launch on one backend instance  *)
(* (native, library-SSH = russh, proxy-SSH = openssh), the remote shell    *)
(* that runs the desugared command, and the output capture fabric          *)
(* (STDOUT_BUFFERS / STDERR_BUFFERS / STDEXT_BUFFERS).                     *)
(***************************************************************************)
EXTENDS Integers, Sequences, FiniteSets, TLC

\* ---------------------------------------------------------------- bounds
MaxOut == 2        \* chunks (one byte each) the program writes over all streams
MaxOps == 2        \* operations performed on a returned process handle
MaxPolls == 1      \* iterations of the PID discovery loop that are counted (saturating)
MaxMsgs == 3       \* channel messages delivered before the channel closes
MaxDepth == 3      \* components of the longest directory path /c1/c2/c3
MaxFsOps == 2      \* filesystem calls made in a row in one scenario
MaxArgs == 2       \* arguments of a process configuration
MaxArgChars == 3   \* characters of all arguments of a configuration together
MaxSnaps == 2      \* output snapshots taken from one handle
MaxHandles == 3    \* proxy-SSH begin_execute calls made concurrently
MaxCallers == 2    \* concurrent run_fs_command calls on one library-SSH instance
MaxTasks == 2      \* concurrent executor / filesystem calls on one SSH instance
MaxDirCalls == 2   \* concurrent create_dir_recursively calls on one library-SSH instance
MaxRegs == 3       \* concurrent receiver registrations on one terminal

\* ------------------------------------------------------------- constants
NL == 10           \* b'\n', appended by the line capture tasks
CR == 13           \* b'\r', removed by next_line in front of the newline
STDERR_EXT == 1    \* "ext 1 is stderr according to SSH spec"
U32_LIMB == 65536  \* u32 arithmetic is carried out on two 16-bit limbs

\* bitflags LinuxPermissions: u32
SET_UID == 2048
SET_GID == 1024
STICKY_BIT == 512
OWNER_READ == 256
OWNER_WRITE == 128
OWNER_EXECUTE == 64
GROUP_READ == 32
GROUP_WRITE == 16
GROUP_EXECUTE == 8
OTHER_READ == 4
OTHER_WRITE == 2
OTHER_EXECUTE == 1

Backends == {"native", "russh", "openssh"}
Bytes == {97, NL, CR, 255}  \* bytes the program writes to stdout; 255 is in no UTF-8 text
ErrBytes == {98}       \* bytes the program writes to stderr
ExtBytes == {99}       \* payload bytes of extended data with ext >= 2
ExtStreams == {2}
ExitCodes == {0, 1}
OsPids == {42}          \* values of Child::id() after a spawn
Digits == {"0", "1", "2", "3", "4", "5", "6", "7", "8", "9"}
\* char::is_whitespace: the characters with the Unicode property White_Space.
\* A character is a one-character string; one that has no literal is named by
\* its code point
Whitespace ==
    {"\t", "\n", "U+000B", "\f", "\r", " ", "U+0085", "U+00A0", "U+1680",
     "U+2000", "U+2001", "U+2002", "U+2003", "U+2004", "U+2005", "U+2006",
     "U+2007", "U+2008", "U+2009", "U+200A", "U+2028", "U+2029", "U+202F",
     "U+205F", "U+3000"}
\* contents the remote shell may write into the handoff file
PidTexts == { <<"4", "2", "\n">>,
              <<"4", "2", "\f", "U+0085">>,
              <<" ", "4", "2", "\n">>,
              <<"x", "\n">>,
              <<"4", "2", "9", "4", "9", "6", "7", "2", "9", "6", "\n">> }

None == [some |-> FALSE, v |-> 0]
Some(x) == [some |-> TRUE, v |-> x]

\* --------------------------------------------------------- pure helpers
DigitVal(c) ==
    CASE c = "0" -> 0 [] c = "1" -> 1 [] c = "2" -> 2 [] c = "3" -> 3
      [] c = "4" -> 4 [] c = "5" -> 5 [] c = "6" -> 6 [] c = "7" -> 7
      [] c = "8" -> 8 [] c = "9" -> 9

\* str::trim_end
RECURSIVE trim_end(_)
trim_end(s) ==
    IF s = <<>> THEN s
    ELSE IF s[Len(s)] \in Whitespace THEN trim_end(SubSeq(s, 1, Len(s) - 1))
    ELSE s

\* checked acc * 10 + d on a u32 held as limbs [hi, lo]; ok = FALSE on overflow
RECURSIVE ParseDigits(_, _, _)
ParseDigits(s, hi, lo) ==
    IF s = <<>> THEN [ok |-> TRUE, hi |-> hi, lo |-> lo]
    ELSE IF s[1] \notin Digits THEN [ok |-> FALSE, hi |-> 0, lo |-> 0]
    ELSE LET l    == lo * 10 + DigitVal(s[1])
             h    == hi * 10 + (l \div U32_LIMB)
         IN  IF h >= U32_LIMB THEN [ok |-> FALSE, hi |-> 0, lo |-> 0]
             ELSE ParseDigits(Tail(s), h, l % U32_LIMB)

\* <u32 as FromStr>::from_str(..).ok()
ParseU32(s) ==
    LET body == IF s # <<>> /\ s[1] = "+" THEN Tail(s) ELSE s
        r    == ParseDigits(body, 0, 0)
    IN  IF body = <<>> \/ ~r.ok THEN None
        ELSE Some(r.hi * U32_LIMB + r.lo)

\* content.trim_end().parse().ok()
ParsePidFile(content) == ParseU32(trim_end(content))

EmptyMap == [k \in {} |-> <<>>]
Insert(m, k, v) == [x \in DOMAIN m \cup {k} |-> IF x = k THEN v ELSE m[x]]
Remove(m, k) == [x \in DOMAIN m \ {k} |-> m[x]]
\* a buffer that holds only the data of the last append
ExtendIfPresent_Mut(m, k, data) ==
    IF k \in DOMAIN m THEN [m EXCEPT ![k] = data] ELSE m

\* DashMap::get_mut(k).map(|buf| buf.extend(data))
ExtendIfPresent(m, k, data) ==
    IF k \in DOMAIN m THEN [m EXCEPT ![k] = @ \o data] ELSE m
\* DashMap::get(k) -> to_vec, or an empty vector
GetOrEmpty(m, k) == IF k \in DOMAIN m THEN m[k] ELSE <<>>

InternalId(ch, inst) == [channel_id |-> ch, instance_id |-> inst]
StdextKey(ch, inst, e) == [channel_id |-> ch, instance_id |-> inst, ext |-> e]

\* first index of NL in s, 0 if none
RECURSIVE FindNL(_, _)
FindNL(s, i) ==
    IF i > Len(s) THEN 0 ELSE IF s[i] = NL THEN i ELSE FindNL(s, i + 1)

\* core::str::from_utf8 accepts s[i..]: the well-formed byte sequences of
\* one to four bytes
Cont(s, i) == i <= Len(s) /\ s[i] \in 128..191
RECURSIVE Utf8From(_, _)
Utf8From(s, i) ==
    IF i > Len(s) THEN TRUE
    ELSE LET b == s[i]
             second == IF i < Len(s) THEN s[i + 1] ELSE 0
         IN  IF b < 128 THEN Utf8From(s, i + 1)
             ELSE IF b \in 194..223 THEN Cont(s, i + 1) /\ Utf8From(s, i + 2)
             ELSE IF b \in 224..239
                  THEN /\ Cont(s, i + 1) /\ Cont(s, i + 2)
                       /\ (b = 224 => second >= 160)
                       /\ (b = 237 => second <= 159)
                       /\ Utf8From(s, i + 3)
             ELSE IF b \in 240..244
                  THEN /\ Cont(s, i + 1) /\ Cont(s, i + 2) /\ Cont(s, i + 3)
                       /\ (b = 240 => second >= 144)
                       /\ (b = 244 => second <= 143)
                       /\ Utf8From(s, i + 4)
             ELSE FALSE

\* Lines::next_line on the unread pipe content: a line is available when a
\* newline is buffered, or at EOF when bytes without newline are left. The
\* bytes up to and including the newline are consumed; if they are not UTF-8
\* the call fails, otherwise the newline and a carriage return in front of it
\* are removed
LineReady(pipe, eof) == FindNL(pipe, 1) > 0 \/ (eof /\ pipe # <<>>)
next_line(pipe) ==
    LET i == FindNL(pipe, 1)
        read == IF i > 0 THEN SubSeq(pipe, 1, i) ELSE pipe
        rest == IF i > 0 THEN SubSeq(pipe, i + 1, Len(pipe)) ELSE <<>>
        body == IF i > 0 THEN SubSeq(pipe, 1, i - 1) ELSE pipe
        line == IF i > 0 /\ body # <<>> /\ body[Len(body)] = CR
                THEN SubSeq(body, 1, Len(body) - 1)
                ELSE body
    IN  IF Utf8From(read, 1)
        THEN [ok |-> TRUE, line |-> line, rest |-> rest]
        ELSE [ok |-> FALSE, line |-> <<>>, rest |-> rest]

\* ---------------------------------------------------------------- state
VARIABLES
    backend,        \* which backend the instance is
    instance_id,    \* RusshLinux.id
    call,           \* executor entry point in progress: "none" | "execute" | "begin_execute"
    cfg,            \* the LinuxProcessConfiguration of the launch
    pc,             \* position of the calling task inside the entry point
    handle,         \* the LinuxProcess handle: "none" | "live" | "dropped"
    awaiting,       \* consuming call on the handle: "none" | "execute" | "await_exit" | "await_exit_with_output"
    stdin,          \* handle.stdin is Some
    pid_option,     \* handle.pid_option / NativeLinuxProcess.pid
    channel_id,     \* id of the session channel opened for the launch (russh)
    synthetic_id,   \* OpensshLinuxProcess.synthetic_id
    status_code,    \* local status_code of await_process_exit
    result,         \* value returned by execute / await_exit / await_exit_with_output
    lastOp,         \* last operation on the handle and its Result
    opCount,        \* number of operations performed on the handle
    closeOk,        \* number of close_stdin calls that returned Ok
    stdinRecv,      \* number of bytes the process received on stdin
    SYNTHETIC_ID_GENERATOR,
    STDOUT_BUFFERS,
    STDERR_BUFFERS,
    STDEXT_BUFFERS,
    capture,        \* the spawned capture tasks: [out, err] each "none" | "running" | "ended"
    remote,         \* phase of the launched command on the host
    pidFile,        \* handoff file: [exists, content]
    fsUp,           \* the filesystem port reaches the remote filesystem
    pollAttempts,   \* iterations of the running PID discovery loop (saturating)
    progOut,        \* every byte the program wrote to stdout, in order
    progErr,        \* every byte the program wrote to stderr, in order
    progExt,        \* every <<ext, byte>> sent as extended data with ext >= 2
    exitCode,       \* exit status of the program once it ended
    chanMsgs,       \* ChannelMsg values queued for Channel::wait (russh)
    pipeOut,        \* unread bytes of the child's stdout pipe (native, openssh)
    pipeErr,        \* unread bytes of the child's stderr pipe
    accOut,         \* stdout collected by the one-shot output call
    accErr,         \* stderr collected by the one-shot output call
    chanLog,        \* every ChannelMsg the channel of a pending await was given
    permIn,         \* a permission value or raw mode handed to a conversion
    permOp,         \* the conversion applied to permIn
    permOut,        \* the Option it produced
    fileMode,       \* st_mode of the existing file p on the host
    nodes,          \* what the host has at /c1, /c1/c2, ...: "none" | "dir" | "file"
    fsOp,           \* last filesystem call: [op, arg, res, out, mkdirs]
    fsCount,        \* filesystem calls made so far
    fsChan,         \* ChannelMsg values left on the channel of run_fs_command
    pcfg,           \* the LinuxProcessConfiguration handed to the desugarer
    desugared,      \* what the desugarer returned: Option of [command, pid_file]
    snaps,          \* the output snapshots taken from the live handle, in order
    idGenerator,    \* SYNTHETIC_ID_GENERATOR as a u32 held in 16-bit limbs [hi, lo]
    handles,        \* the proxy-SSH begin_execute calls of the process: [state, id, ord] each
    fsLock,         \* holder of fs_channel_mutex, 0 when it is free
    fsServer,       \* server end of the filesystem channel: [state, cmd, sent]
    callers,        \* the run_fs_command calls on one instance: [pc, code, read, res] each
    files,          \* the host's nodes by path: [kind, target] each
    fileCall,       \* the last open_file or link call: [op, path, arg, opts, flags, res, out]
    inner,          \* payloads WrappingHandler passed on to the inner handler, by stream
    mtx,            \* holder of each mutex of the backend instance, 0 when it is free
    tasks,          \* concurrent calls on one instance: [op, ip, held, handoff] each
    dhs,            \* DHS entry of the terminal's channel: the registered receiver, 0 if none
    regCalls,       \* concurrent (un)register_event_receiver calls: [op, pc, seen, old, res] each
    dirCalls        \* concurrent library-SSH create_dir_recursively calls, one record each

ctlVars == <<backend, instance_id, call, cfg, pc, handle, awaiting>>
hndVars == <<stdin, pid_option, channel_id, synthetic_id, status_code, result>>
opVars  == <<lastOp, opCount, closeOk, stdinRecv>>
fabVars == <<SYNTHETIC_ID_GENERATOR, STDOUT_BUFFERS, STDERR_BUFFERS, STDEXT_BUFFERS, capture>>
fsVars  == <<pidFile, fsUp, pollAttempts>>
remVars == <<remote, progOut, progErr, progExt, exitCode>>
ioVars  == <<chanMsgs, pipeOut, pipeErr, accOut, accErr>>
execVars == <<ctlVars, hndVars, opVars, fabVars, fsVars, remVars, ioVars>>
permVars == <<permIn, permOp, permOut>>
portVars == <<fileMode, nodes, fsOp, fsCount, fsChan>>
desugarVars == <<pcfg, desugared>>
snapVars == <<snaps>>
idVars == <<idGenerator, handles>>
mutexVars == <<fsLock, fsServer, callers>>
fileVars == <<files, fileCall>>
\* state of one backend instance next to its executor
lockVars == <<mtx, tasks>>
termVars == <<dhs, regCalls>>
dirVars == <<dirCalls>>
instVars == <<inner, lockVars, termVars, dirVars>>
extVars == <<desugarVars, snapVars, idVars, mutexVars, fileVars, instVars>>
auxVars == <<chanLog, permVars, portVars, extVars>>
\* everything but the executor and the inner handler's log
auxButInner ==
    <<chanLog, permVars, portVars, desugarVars, snapVars, idVars, mutexVars, fileVars,
      lockVars, termVars, dirVars>>
vars == <<execVars, auxVars>>

Configs ==
    [redirect_stdin : BOOLEAN, redirect_stdout : BOOLEAN, redirect_stderr : BOOLEAN,
     disable_extra_reads : BOOLEAN]

NoResult == [kind |-> "none"]
NoOp == [op |-> "none", res |-> "none"]

\* the capture-fabric key of the launch
Key ==
    IF backend = "russh" THEN InternalId(channel_id, instance_id)
    ELSE IF backend = "openssh" THEN synthetic_id
    ELSE pid_option.v

Emitted == Len(progOut) + Len(progErr) + Len(progExt)

\* no launch made yet on this instance; the fabric is set by ExecInit
ExecStart ==
    /\ backend \in Backends
    /\ instance_id = 1
    /\ call = "none"
    /\ cfg = [redirect_stdin |-> FALSE, redirect_stdout |-> FALSE, redirect_stderr |-> FALSE,
              disable_extra_reads |-> FALSE]
    /\ pc = "start"
    /\ handle = "none"
    /\ awaiting = "none"
    /\ stdin = FALSE
    /\ pid_option = None
    /\ channel_id = 0
    /\ synthetic_id = 0
    /\ status_code = None
    /\ result = NoResult
    /\ lastOp = NoOp
    /\ opCount = 0
    /\ closeOk = 0
    /\ stdinRecv = 0
    /\ SYNTHETIC_ID_GENERATOR = 0
    /\ capture = [out |-> "none", err |-> "none"]
    /\ remote = "off"
    /\ pidFile = [exists |-> FALSE, content |-> <<>>]
    /\ fsUp = TRUE
    /\ pollAttempts = 0
    /\ progOut = <<>>
    /\ progErr = <<>>
    /\ progExt = <<>>
    /\ exitCode = None
    /\ chanMsgs = <<>>
    /\ pipeOut = <<>>
    /\ pipeErr = <<>>
    /\ accOut = <<>>
    /\ accErr = <<>>

\* the first launch of the program: the three maps of the fabric are empty
ExecInit ==
    /\ ExecStart
    /\ STDOUT_BUFFERS = EmptyMap
    /\ STDERR_BUFFERS = EmptyMap
    /\ STDEXT_BUFFERS = EmptyMap

\* no conversion under way
PermIdle == permIn = 0 /\ permOp = "none" /\ permOut = None

NoFsOp == [op |-> "none", arg |-> 0, res |-> "none", out |-> None, mkdirs |-> {}]

\* no filesystem call made
PortIdle ==
    /\ fileMode = 0
    /\ nodes = [d \in 1..MaxDepth |-> "none"]
    /\ fsOp = NoFsOp
    /\ fsCount = 0
    /\ fsChan = <<>>

NoConfiguration == [working_dir |-> None, envs |-> {}, program |-> <<>>, args |-> <<>>]

\* the desugarer has not been called
DesugarIdle == pcfg = NoConfiguration /\ desugared = None

NoHandle == [state |-> "idle", id |-> [hi |-> 0, lo |-> 0], ord |-> 0]

\* no proxy-SSH launch under way, no id handed out
IdIdle == idGenerator = [hi |-> 0, lo |-> 0] /\ handles = [h \in 1..MaxHandles |-> NoHandle]

NoCaller == [pc |-> "idle", code |-> None, read |-> {}, res |-> "none"]

\* the filesystem channel is open and unused
MutexIdle ==
    /\ fsLock = 0
    /\ fsServer = [state |-> "open", cmd |-> 0, sent |-> 0]
    /\ callers = [c \in 1..MaxCallers |-> NoCaller]

\* "/nonutf8" stands for a path whose bytes are not UTF-8
Paths == {"/a", "/b", "/nonutf8"}

NoNode == [kind |-> "none", target |-> ""]

NoFileCall ==
    [op |-> "none", path |-> "", arg |-> "", opts |-> {}, flags |-> {}, res |-> "none", out |-> ""]

\* no open_file or link call made, nothing on the host
FileIdle ==
    /\ files = [p \in Paths |-> NoNode]
    /\ fileCall = NoFileCall

NoPayloads == [data |-> <<>>, extended_data |-> [e \in {STDERR_EXT} \cup ExtStreams |-> <<>>]]

\* the mutexes of one instance: the session handle and the filesystem
\* channel (library-SSH), the SFTP handle (proxy-SSH), and the channel of
\* the process each call creates (library-SSH)
Mutexes ==
    {<<"handle_mutex", 0>>, <<"fs_channel_mutex", 0>>, <<"sftp_mutex", 0>>}
        \cup {<<"channel_mutex", t>> : t \in 1..MaxTasks}

NoTask == [op |-> "none", ip |-> 1, held |-> {}, handoff |-> FALSE]

\* no call under way, every mutex free
LockIdle ==
    /\ mtx = [m \in Mutexes |-> 0]
    /\ tasks = [t \in 1..MaxTasks |-> NoTask]

\* seen: the entry the check under the read lock found; old: the entry
\* that insert / remove under the write lock took out of the map
NoRegCall == [op |-> "none", pc |-> "idle", seen |-> 0, old |-> 0, res |-> "none"]

\* no receiver registered, no registration under way
TermIdle ==
    /\ dhs = 0
    /\ regCalls = [r \in 1..MaxRegs |-> NoRegCall]

\* the inner handler was given nothing, no call under way
\* a create_dir_recursively(/c1/.../ck) call of the library-SSH backend: d is
\* the component the loop is at, start the host's nodes when the call began,
\* issued the components a create_dir was sent for, sftp_failed whether
\* try_exists returned Err
NoDirCall ==
    [pc |-> "idle", k |-> 0, d |-> 0, previous_existed |-> FALSE, issued |-> {},
     start |-> <<>>, res |-> "none", sftp_failed |-> FALSE]

DirIdle == dirCalls = [c \in 1..MaxDirCalls |-> NoDirCall]

InstIdle == inner = NoPayloads /\ LockIdle /\ TermIdle /\ DirIdle

ExtIdle == DesugarIdle /\ snaps = <<>> /\ IdIdle /\ MutexIdle /\ FileIdle /\ InstIdle

Init == ExecInit /\ chanLog = <<>> /\ PermIdle /\ PortIdle /\ ExtIdle

\* ------------------------------------------------- the host (environment)
\* the subshell opens the redirection target of "echo $$ > PIDFILE"
RemoteShellRedirect ==
    /\ remote = "shell"
    /\ remote' = "redirected"
    /\ pidFile' = [exists |-> TRUE, content |-> <<>>]
    /\ UNCHANGED <<ctlVars, hndVars, opVars, fabVars, ioVars>>
    /\ UNCHANGED <<fsUp, pollAttempts, progOut, progErr, progExt, exitCode>>
    /\ UNCHANGED auxVars

\* echo writes the PID line, then "exec PROGRAM" starts the program
RemoteShellEcho(t) ==
    /\ remote = "redirected"
    /\ remote' = "running"
    /\ pidFile' = [exists |-> TRUE, content |-> t]
    /\ UNCHANGED <<ctlVars, hndVars, opVars, fabVars, ioVars>>
    /\ UNCHANGED <<fsUp, pollAttempts, progOut, progErr, progExt, exitCode>>
    /\ UNCHANGED auxVars

\* the filesystem port loses / regains the remote filesystem while the PID
\* discovery loop runs (the only time the executor uses it)
FsOutage ==
    /\ pc \in {"poll", "read"}
    /\ fsUp /\ pollAttempts < MaxPolls
    /\ fsUp' = FALSE
    /\ UNCHANGED <<ctlVars, hndVars, opVars, fabVars, remVars, ioVars, pidFile, pollAttempts>>
    /\ UNCHANGED auxVars

FsRecover ==
    /\ ~fsUp
    /\ fsUp' = TRUE
    /\ UNCHANGED <<ctlVars, hndVars, opVars, fabVars, remVars, ioVars, pidFile, pollAttempts>>
    /\ UNCHANGED auxVars

\* WrappingHandler::data, effect on STDOUT_BUFFERS; self.inner.data(..) is in the
\* delivery action
WrappingHandler_data(bufs, channel, data) ==
    ExtendIfPresent(bufs, InternalId(channel, instance_id), data)

\* WrappingHandler::extended_data, effect on STDERR_BUFFERS
WrappingHandler_extended_data_stderr(bufs, channel, ext, data) ==
    IF ext = STDERR_EXT
    THEN ExtendIfPresent(bufs, InternalId(channel, instance_id), data)
    ELSE bufs

\* WrappingHandler::extended_data, effect on STDEXT_BUFFERS
WrappingHandler_extended_data_stdext(bufs, channel, ext, data) ==
    IF ext = STDERR_EXT THEN bufs
    ELSE LET stdext_key == StdextKey(channel, instance_id, ext)
         IN  IF stdext_key \in DOMAIN bufs
             THEN [bufs EXCEPT ![stdext_key] = @ \o data]
             ELSE Insert(bufs, stdext_key, data)

\* the launched program executes: also after a SIGKILL was sent to it and
\* before the kernel has ended it
ProgramRuns == remote \in {"running", "killed"}

\* the stream is Stdio::piped() in create_command_from_config
NativePiped(stream) == IF stream = "out" THEN cfg.redirect_stdout ELSE cfg.redirect_stderr

\* The read end of the child's pipe is closed when its owner is dropped: the
\* task spawned by queue_capturer, which took it and whose loop has ended,
\* or, when no task took it, the Child inside the NativeLinuxProcess, which
\* goes with the handle (dropped by the caller, or with the future of a
\* cancelled await_exit_with_output)
NativePipeClosed(stream) ==
    /\ backend = "native"
    /\ \/ capture[stream] = "ended"
       \/ handle = "dropped" /\ capture[stream] = "none" /\ NativePiped(stream)

\* messages of a channel whose receiver was dropped with the handle are discarded
Enqueue(msg) == IF handle = "dropped" THEN chanMsgs ELSE Append(chanMsgs, msg)

\* the program writes one byte to stdout
RemoteWriteStdout(b) ==
    /\ ProgramRuns /\ Emitted < MaxOut
    /\ ~NativePipeClosed("out")
    /\ progOut' = Append(progOut, b)
    /\ IF backend = "russh"
       THEN /\ STDOUT_BUFFERS' = WrappingHandler_data(STDOUT_BUFFERS, channel_id, <<b>>)
            /\ chanMsgs' = Enqueue([type |-> "Data"])
            /\ UNCHANGED pipeOut
       ELSE /\ pipeOut' = IF cfg.redirect_stdout THEN Append(pipeOut, b) ELSE pipeOut
            /\ UNCHANGED <<STDOUT_BUFFERS, chanMsgs>>
    /\ UNCHANGED <<ctlVars, hndVars, opVars, fsVars>>
    /\ UNCHANGED <<SYNTHETIC_ID_GENERATOR, STDERR_BUFFERS, STDEXT_BUFFERS, capture>>
    /\ UNCHANGED <<remote, progErr, progExt, exitCode, pipeErr, accOut, accErr>>
    /\ inner' = IF backend = "russh" THEN [inner EXCEPT !.data = Append(@, b)] ELSE inner
    /\ UNCHANGED auxButInner

\* the program writes one byte to stderr (SSH extended data 1)
RemoteWriteStderr(b) ==
    /\ ProgramRuns /\ Emitted < MaxOut
    /\ ~NativePipeClosed("err")
    /\ progErr' = Append(progErr, b)
    /\ IF backend = "russh"
       THEN /\ STDERR_BUFFERS' = WrappingHandler_extended_data_stderr(STDERR_BUFFERS, channel_id, STDERR_EXT, <<b>>)
            /\ STDEXT_BUFFERS' = WrappingHandler_extended_data_stdext(STDEXT_BUFFERS, channel_id, STDERR_EXT, <<b>>)
            /\ chanMsgs' = Enqueue([type |-> "Data"])
            /\ UNCHANGED pipeErr
       ELSE /\ pipeErr' = IF cfg.redirect_stderr THEN Append(pipeErr, b) ELSE pipeErr
            /\ UNCHANGED <<STDERR_BUFFERS, STDEXT_BUFFERS, chanMsgs>>
    /\ UNCHANGED <<ctlVars, hndVars, opVars, fsVars>>
    /\ UNCHANGED <<SYNTHETIC_ID_GENERATOR, STDOUT_BUFFERS, capture>>
    /\ UNCHANGED <<remote, progOut, progExt, exitCode, pipeOut, accOut, accErr>>
    /\ inner' = IF backend = "russh"
                THEN [inner EXCEPT !.extended_data[STDERR_EXT] = Append(@, b)]
                ELSE inner
    /\ UNCHANGED auxButInner

\* the server sends extended data with ext >= 2 on the channel
RemoteWriteExt(e, b) ==
    /\ backend = "russh"
    /\ remote = "running" /\ Emitted < MaxOut
    /\ progExt' = Append(progExt, <<e, b>>)
    /\ STDERR_BUFFERS' = WrappingHandler_extended_data_stderr(STDERR_BUFFERS, channel_id, e, <<b>>)
    /\ STDEXT_BUFFERS' = WrappingHandler_extended_data_stdext(STDEXT_BUFFERS, channel_id, e, <<b>>)
    /\ chanMsgs' = Enqueue([type |-> "Data"])
    /\ UNCHANGED <<ctlVars, hndVars, opVars, fsVars>>
    /\ UNCHANGED <<SYNTHETIC_ID_GENERATOR, STDOUT_BUFFERS, capture>>
    /\ UNCHANGED <<remote, progOut, progErr, exitCode, pipeOut, pipeErr, accOut, accErr>>
    /\ inner' = [inner EXCEPT !.extended_data[e] = Append(@, b)]
    /\ UNCHANGED auxButInner

\* the program ends with an exit status
RemoteExit(code) ==
    /\ ProgramRuns
    /\ remote' = "exited"
    /\ exitCode' = Some(code)
    /\ chanMsgs' = IF backend = "russh"
                   THEN Enqueue([type |-> "ExitStatus", exit_status |-> code])
                   ELSE chanMsgs
    /\ UNCHANGED <<ctlVars, hndVars, opVars, fabVars, fsVars>>
    /\ UNCHANGED <<progOut, progErr, progExt, pipeOut, pipeErr, accOut, accErr>>
    /\ UNCHANGED auxVars

\* the program writes to a pipe whose reader was dropped: the write does not
\* happen and SIGPIPE ends the child without an exit status (a program that
\* ignores the signal gets EPIPE and goes on: no step)
RemoteSigpipe ==
    /\ ProgramRuns
    /\ NativePipeClosed("out") \/ NativePipeClosed("err")
    /\ remote' = "exited"
    /\ exitCode' = None
    /\ UNCHANGED <<ctlVars, hndVars, opVars, fabVars, fsVars, ioVars>>
    /\ UNCHANGED <<progOut, progErr, progExt>>
    /\ UNCHANGED auxVars

\* the kernel ends a child that was sent SIGKILL: no exit status, its ends of
\* the pipes are closed
RemoteKilled ==
    /\ remote = "killed"
    /\ remote' = "exited"
    /\ exitCode' = None
    /\ UNCHANGED <<ctlVars, hndVars, opVars, fabVars, fsVars, ioVars>>
    /\ UNCHANGED <<progOut, progErr, progExt>>
    /\ UNCHANGED auxVars

\* the server closes the channel, after the exit status or without one
RemoteClose ==
    /\ backend = "russh"
    /\ remote \in {"running", "exited"}
    /\ remote' = "closed"
    /\ UNCHANGED <<ctlVars, hndVars, opVars, fabVars, fsVars, ioVars>>
    /\ UNCHANGED <<progOut, progErr, progExt, exitCode>>
    /\ UNCHANGED auxVars

\* ------------------------------------------------------- shared executor code
\* LinuxOpenOptions::new().read() on the handoff file through the filesystem port
OpenPidFileOk == fsUp /\ pidFile.exists

\* one iteration of the PID discovery loop: whether it breaks, and pid_option
PidLoopIteration(open_ok, content) ==
    IF open_ok
    THEN LET parsed == ParsePidFile(content)
         IN  [brk |-> parsed.some, pid |-> parsed]
    ELSE [brk |-> FALSE, pid |-> None]

\* LinuxProcess::send_kill_request, the provided method of the trait
send_kill_request == "KillRequestUnsupported"

\* FinishedLinuxProcessOutput::join
join(output, code) ==
    [kind |-> "output", stdout |-> output.stdout, stderr |-> output.stderr,
     stdout_extended |-> output.stdout_extended, status_code |-> code]

Min(a, b) == IF a < b THEN a ELSE b

\* the launch is inside the PID discovery loop: about to open the handoff
\* file ("poll") or holding the opened reader ("read")
InPidLoop == pc \in {"poll", "read"}

\* the loop of begin_execute_internal (russh) and OpensshLinux::begin_execute,
\* first await of an iteration: open_file(pid_file, read) returns
PidLoopOpen ==
    /\ backend \in {"russh", "openssh"}
    /\ pc = "poll"
    /\ IF OpenPidFileOk
       THEN /\ pc' = "read"
            /\ UNCHANGED pollAttempts
       ELSE /\ pc' = "poll"
            /\ pollAttempts' = Min(pollAttempts + 1, MaxPolls)
    /\ UNCHANGED <<backend, instance_id, call, cfg, handle, awaiting>>
    /\ UNCHANGED <<stdin, pid_option, channel_id, synthetic_id, status_code, result>>
    /\ UNCHANGED <<opVars, fabVars, remVars, ioVars, pidFile, fsUp>>
    /\ UNCHANGED auxVars

\* second await of the iteration: reader.read_to_string returns what the
\* file holds by now (an error when the port lost the filesystem), then
\* trim_end, parse and the break
PidLoopRead ==
    /\ backend \in {"russh", "openssh"}
    /\ pc = "read"
    /\ LET it == PidLoopIteration(fsUp, pidFile.content)
       IN  /\ pid_option' = IF fsUp THEN it.pid ELSE pid_option
           /\ pc' = IF it.brk THEN "return" ELSE "poll"
           /\ pollAttempts' = IF it.brk THEN 0 ELSE Min(pollAttempts + 1, MaxPolls)
    /\ UNCHANGED <<backend, instance_id, call, cfg, handle, awaiting>>
    /\ UNCHANGED <<stdin, channel_id, synthetic_id, status_code, result>>
    /\ UNCHANGED <<opVars, fabVars, remVars, ioVars, pidFile, fsUp>>
    /\ UNCHANGED auxVars

PidDiscoveryLoop == PidLoopOpen \/ PidLoopRead

\* ------------------------------------------------------------ library-SSH
\* begin_execute_internal: channel_open_session and the exec request
Russh_begin_execute_internal(c, f) ==
    /\ backend = "russh" /\ pc = "start"
    /\ ~f.disable_extra_reads
    /\ call' = c
    /\ cfg' = f
    /\ channel_id' = 1
    /\ remote' = "shell"
    /\ pc' = "register_stdout"
    /\ UNCHANGED <<backend, instance_id, handle, awaiting>>
    /\ UNCHANGED <<stdin, pid_option, synthetic_id, status_code, result>>
    /\ UNCHANGED <<opVars, fabVars, ioVars, pidFile, fsUp, pollAttempts>>
    /\ UNCHANGED <<progOut, progErr, progExt, exitCode>>
    /\ UNCHANGED auxVars

\* begin_execute_internal: STDOUT_BUFFERS.insert
Russh_register_stdout ==
    /\ backend = "russh" /\ pc = "register_stdout"
    /\ STDOUT_BUFFERS' = IF cfg.redirect_stdout
                         THEN Insert(STDOUT_BUFFERS, InternalId(channel_id, instance_id), <<>>)
                         ELSE STDOUT_BUFFERS
    /\ pc' = "register_stderr"
    /\ UNCHANGED <<backend, instance_id, call, cfg, handle, awaiting>>
    /\ UNCHANGED <<hndVars, opVars, fsVars, remVars, ioVars>>
    /\ UNCHANGED <<SYNTHETIC_ID_GENERATOR, STDERR_BUFFERS, STDEXT_BUFFERS, capture>>
    /\ UNCHANGED auxVars

\* begin_execute_internal: STDERR_BUFFERS.insert
Russh_register_stderr ==
    /\ backend = "russh" /\ pc = "register_stderr"
    /\ STDERR_BUFFERS' = IF cfg.redirect_stderr
                         THEN Insert(STDERR_BUFFERS, InternalId(channel_id, instance_id), <<>>)
                         ELSE STDERR_BUFFERS
    /\ pc' = "poll"
    /\ UNCHANGED <<backend, instance_id, call, cfg, handle, awaiting>>
    /\ UNCHANGED <<hndVars, opVars, fsVars, remVars, ioVars>>
    /\ UNCHANGED <<SYNTHETIC_ID_GENERATOR, STDOUT_BUFFERS, STDEXT_BUFFERS, capture>>
    /\ UNCHANGED auxVars

\* begin_execute_internal: request_pty, make_writer, RusshLinuxProcess { .. };
\* execute goes on to lock the channel and await the exit
Russh_return ==
    /\ backend = "russh" /\ pc = "return"
    /\ stdin' = cfg.redirect_stdin
    /\ handle' = "live"
    /\ IF call = "execute"
       THEN pc' = "await" /\ awaiting' = "execute"
       ELSE pc' = "handle" /\ UNCHANGED awaiting
    /\ UNCHANGED <<backend, instance_id, call, cfg>>
    /\ UNCHANGED <<pid_option, channel_id, synthetic_id, status_code, result>>
    /\ UNCHANGED <<opVars, fabVars, fsVars, remVars, ioVars>>
    /\ UNCHANGED auxVars

\* a write_to_stdin that would not look at the stdin option
Russh_write_to_stdin_result_Mut ==
    IF remote = "closed" THEN "Other" ELSE "Ok"

\* RusshLinuxProcess::write_to_stdin: the Result
Russh_write_to_stdin_result ==
    IF ~stdin THEN "StdinNotPiped"
    ELSE IF remote = "closed" THEN "Other"
    ELSE "Ok"

Russh_write_to_stdin ==
    /\ backend = "russh" /\ pc = "handle" /\ opCount < MaxOps
    /\ lastOp' = [op |-> "write_to_stdin", res |-> Russh_write_to_stdin_result]
    /\ stdinRecv' = IF Russh_write_to_stdin_result = "Ok" THEN stdinRecv + 1 ELSE stdinRecv
    /\ opCount' = opCount + 1
    /\ UNCHANGED <<ctlVars, hndVars, fabVars, fsVars, remVars, ioVars>>
    /\ UNCHANGED closeOk
    /\ UNCHANGED auxVars

\* RusshLinuxProcess has no send_kill_request of its own: the provided method runs
Russh_send_kill_request ==
    /\ backend = "russh" /\ pc = "handle" /\ opCount < MaxOps
    /\ lastOp' = [op |-> "send_kill_request", res |-> send_kill_request]
    /\ opCount' = opCount + 1
    /\ UNCHANGED <<ctlVars, hndVars, fabVars, fsVars, remVars, ioVars>>
    /\ UNCHANGED <<closeOk, stdinRecv>>
    /\ UNCHANGED auxVars

\* RusshLinuxProcess::close_stdin: the Result (channel.eof() on the locked channel)
Russh_close_stdin_result == "Ok"

Russh_close_stdin ==
    /\ backend = "russh" /\ pc = "handle" /\ opCount < MaxOps
    /\ lastOp' = [op |-> "close_stdin", res |-> Russh_close_stdin_result]
    /\ closeOk' = IF Russh_close_stdin_result = "Ok" THEN closeOk + 1 ELSE closeOk
    /\ opCount' = opCount + 1
    /\ UNCHANGED <<ctlVars, hndVars, fabVars, fsVars, remVars, ioVars>>
    /\ UNCHANGED stdinRecv
    /\ UNCHANGED auxVars

\* fetch_process_output
fetch_process_output(internal_id) ==
    LET mine == {k \in DOMAIN STDEXT_BUFFERS :
                    /\ k.channel_id = internal_id.channel_id
                    /\ k.instance_id = internal_id.instance_id}
    IN  [stdout |-> GetOrEmpty(STDOUT_BUFFERS, internal_id),
         stderr |-> GetOrEmpty(STDERR_BUFFERS, internal_id),
         stdout_extended |->
            [e \in {k.ext : k \in mine} |->
                STDEXT_BUFFERS[StdextKey(internal_id.channel_id, internal_id.instance_id, e)]]]

\* RusshLinuxProcess::await_exit / await_exit_with_output: lock the channel
Russh_await(kind) ==
    /\ backend = "russh" /\ pc = "handle"
    /\ pc' = "await"
    /\ awaiting' = kind
    /\ UNCHANGED <<backend, instance_id, call, cfg, handle>>
    /\ UNCHANGED <<hndVars, opVars, fabVars, fsVars, remVars, ioVars>>
    /\ UNCHANGED auxVars

\* impl Drop for RusshLinuxProcess, effect on STDOUT_BUFFERS and on STDERR_BUFFERS
Russh_drop(bufs, internal_id) == Remove(bufs, internal_id)

\* an await loop that would keep the first exit status it sees
Russh_await_process_exit_msg_Mut ==
    /\ backend = "russh" /\ pc = "await"
    /\ chanMsgs # <<>>
    /\ status_code' = IF Head(chanMsgs).type = "ExitStatus" /\ ~status_code.some
                      THEN Some(Head(chanMsgs).exit_status)
                      ELSE status_code
    /\ chanMsgs' = Tail(chanMsgs)
    /\ UNCHANGED <<ctlVars, opVars, fabVars, fsVars, remVars>>
    /\ UNCHANGED <<stdin, pid_option, channel_id, synthetic_id, result>>
    /\ UNCHANGED <<pipeOut, pipeErr, accOut, accErr>>
    /\ UNCHANGED auxVars

\* await_process_exit: Some(msg) from channel.wait()
Russh_await_process_exit_msg ==
    /\ backend = "russh" /\ pc = "await"
    /\ chanMsgs # <<>>
    /\ status_code' = IF Head(chanMsgs).type = "ExitStatus"
                      THEN Some(Head(chanMsgs).exit_status)
                      ELSE status_code
    /\ chanMsgs' = Tail(chanMsgs)
    /\ UNCHANGED <<ctlVars, opVars, fabVars, fsVars, remVars>>
    /\ UNCHANGED <<stdin, pid_option, channel_id, synthetic_id, result>>
    /\ UNCHANGED <<pipeOut, pipeErr, accOut, accErr>>
    /\ UNCHANGED auxVars

\* await_process_exit: None from channel.wait() ends the loop; the caller builds
\* its return value and the handle is dropped at the end of the call
Russh_await_process_exit_end ==
    /\ backend = "russh" /\ pc = "await"
    /\ chanMsgs = <<>> /\ remote = "closed"
    /\ result' = IF awaiting = "await_exit"
                 THEN [kind |-> "code", status_code |-> status_code]
                 ELSE join(fetch_process_output(InternalId(channel_id, instance_id)), status_code)
    /\ STDOUT_BUFFERS' = Russh_drop(STDOUT_BUFFERS, InternalId(channel_id, instance_id))
    /\ STDERR_BUFFERS' = Russh_drop(STDERR_BUFFERS, InternalId(channel_id, instance_id))
    /\ handle' = "dropped"
    /\ pc' = "done"
    /\ UNCHANGED <<backend, instance_id, call, cfg, awaiting>>
    /\ UNCHANGED <<stdin, pid_option, channel_id, synthetic_id, status_code>>
    /\ UNCHANGED <<opVars, fsVars, remVars, ioVars>>
    /\ UNCHANGED <<SYNTHETIC_ID_GENERATOR, STDEXT_BUFFERS, capture>>
    /\ UNCHANGED auxVars

\* the caller drops the future of a pending await_exit / await_exit_with_output:
\* the future owns the Box<Self> and the channel guard, so the handle is
\* dropped with it (Drop for RusshLinuxProcess) and the local status_code is gone
Russh_cancel_await ==
    /\ backend = "russh" /\ pc = "await" /\ call = "begin_execute"
    /\ STDOUT_BUFFERS' = Russh_drop(STDOUT_BUFFERS, InternalId(channel_id, instance_id))
    /\ STDERR_BUFFERS' = Russh_drop(STDERR_BUFFERS, InternalId(channel_id, instance_id))
    /\ status_code' = None
    /\ chanMsgs' = <<>>
    /\ handle' = "dropped"
    /\ pc' = "done"
    /\ UNCHANGED <<backend, instance_id, call, cfg, awaiting>>
    /\ UNCHANGED <<stdin, pid_option, channel_id, synthetic_id, result>>
    /\ UNCHANGED <<opVars, fsVars, remVars>>
    /\ UNCHANGED <<SYNTHETIC_ID_GENERATOR, STDEXT_BUFFERS, capture>>
    /\ UNCHANGED <<pipeOut, pipeErr, accOut, accErr>>
    /\ UNCHANGED auxVars

\* the caller drops the handle without awaiting the exit
Russh_drop_handle ==
    /\ backend = "russh" /\ pc = "handle"
    /\ STDOUT_BUFFERS' = Russh_drop(STDOUT_BUFFERS, InternalId(channel_id, instance_id))
    /\ STDERR_BUFFERS' = Russh_drop(STDERR_BUFFERS, InternalId(channel_id, instance_id))
    /\ handle' = "dropped"
    /\ pc' = "done"
    /\ chanMsgs' = <<>>
    /\ UNCHANGED <<backend, instance_id, call, cfg, awaiting>>
    /\ UNCHANGED <<hndVars, opVars, fsVars, remVars>>
    /\ UNCHANGED <<SYNTHETIC_ID_GENERATOR, STDEXT_BUFFERS, capture>>
    /\ UNCHANGED <<pipeOut, pipeErr, accOut, accErr>>
    /\ UNCHANGED auxVars

\* -------------------------------------------------- line capture (shared)
\* the write end of the child's pipes is closed once the program has ended
PipeEof == remote = "exited"

\* one-shot output call (Command::output / wait_with_output): read stdout
OneShotReading ==
    \/ pc = "output"
    \/ pc = "await" /\ backend = "native" /\ awaiting = "await_exit_with_output"

OneShotReadStdout ==
    /\ OneShotReading
    /\ capture.out = "none" /\ pipeOut # <<>>
    /\ accOut' = accOut \o pipeOut
    /\ pipeOut' = <<>>
    /\ UNCHANGED <<ctlVars, hndVars, opVars, fabVars, fsVars, remVars>>
    /\ UNCHANGED <<chanMsgs, pipeErr, accErr>>
    /\ UNCHANGED auxVars

OneShotReadStderr ==
    /\ OneShotReading
    /\ capture.err = "none" /\ pipeErr # <<>>
    /\ accErr' = accErr \o pipeErr
    /\ pipeErr' = <<>>
    /\ UNCHANGED <<ctlVars, hndVars, opVars, fabVars, fsVars, remVars>>
    /\ UNCHANGED <<chanMsgs, pipeOut, accOut>>
    /\ UNCHANGED auxVars

\* the one-shot call returns at process exit, after reading its pipes to EOF
OneShotComplete ==
    /\ remote = "exited"
    /\ capture.out = "none" => pipeOut = <<>>
    /\ capture.err = "none" => pipeErr = <<>>

\* -------------------------------------------------------------- proxy-SSH
\* OpensshLinux::begin_execute: spawn, fetch_add, child.stdin().take()
Openssh_begin_execute(f) ==
    /\ backend = "openssh" /\ pc = "start"
    /\ ~f.disable_extra_reads
    /\ call' = "begin_execute"
    /\ cfg' = f
    /\ synthetic_id' = SYNTHETIC_ID_GENERATOR
    /\ SYNTHETIC_ID_GENERATOR' = SYNTHETIC_ID_GENERATOR + 1
    /\ stdin' = f.redirect_stdin
    /\ remote' = "shell"
    /\ pc' = "register_stdout"
    /\ UNCHANGED <<backend, instance_id, handle, awaiting>>
    /\ UNCHANGED <<pid_option, channel_id, status_code, result>>
    /\ UNCHANGED <<opVars, ioVars, fsVars>>
    /\ UNCHANGED <<STDOUT_BUFFERS, STDERR_BUFFERS, STDEXT_BUFFERS, capture>>
    /\ UNCHANGED <<progOut, progErr, progExt, exitCode>>
    /\ UNCHANGED auxVars

\* spawn_capture_task(synthetic_id, LinuxStreamType::Stdout, ..)
Openssh_spawn_capture_task_stdout ==
    /\ backend = "openssh" /\ pc = "register_stdout"
    /\ IF cfg.redirect_stdout
       THEN /\ STDOUT_BUFFERS' = Insert(STDOUT_BUFFERS, synthetic_id, <<>>)
            /\ capture' = [capture EXCEPT !.out = "running"]
       ELSE UNCHANGED <<STDOUT_BUFFERS, capture>>
    /\ pc' = "register_stderr"
    /\ UNCHANGED <<backend, instance_id, call, cfg, handle, awaiting>>
    /\ UNCHANGED <<hndVars, opVars, fsVars, remVars, ioVars>>
    /\ UNCHANGED <<SYNTHETIC_ID_GENERATOR, STDERR_BUFFERS, STDEXT_BUFFERS>>
    /\ UNCHANGED auxVars

\* spawn_capture_task(synthetic_id, LinuxStreamType::Stderr, ..)
Openssh_spawn_capture_task_stderr ==
    /\ backend = "openssh" /\ pc = "register_stderr"
    /\ IF cfg.redirect_stderr
       THEN /\ STDERR_BUFFERS' = Insert(STDERR_BUFFERS, synthetic_id, <<>>)
            /\ capture' = [capture EXCEPT !.err = "running"]
       ELSE UNCHANGED <<STDERR_BUFFERS, capture>>
    /\ pc' = "poll"
    /\ UNCHANGED <<backend, instance_id, call, cfg, handle, awaiting>>
    /\ UNCHANGED <<hndVars, opVars, fsVars, remVars, ioVars>>
    /\ UNCHANGED <<SYNTHETIC_ID_GENERATOR, STDOUT_BUFFERS, STDEXT_BUFFERS>>
    /\ UNCHANGED auxVars

\* OpensshLinux::begin_execute: Ok(Box::new(OpensshLinuxProcess { .. }))
Openssh_return ==
    /\ backend = "openssh" /\ pc = "return"
    /\ handle' = "live"
    /\ pc' = "handle"
    /\ UNCHANGED <<backend, instance_id, call, cfg, awaiting>>
    /\ UNCHANGED <<hndVars, opVars, fabVars, fsVars, remVars, ioVars>>
    /\ UNCHANGED auxVars

\* a capture task that makes the line visible without its newline
Openssh_capture_task_stdout_Mut ==
    /\ backend = "openssh" /\ capture.out = "running"
    /\ \/ /\ LineReady(pipeOut, PipeEof)
          /\ pipeOut' = next_line(pipeOut).rest
          /\ IF next_line(pipeOut).ok /\ synthetic_id \in DOMAIN STDOUT_BUFFERS
             THEN /\ STDOUT_BUFFERS' = ExtendIfPresent(STDOUT_BUFFERS, synthetic_id,
                                                      next_line(pipeOut).line)
                  /\ UNCHANGED capture
             ELSE /\ capture' = [capture EXCEPT !.out = "ended"]
                  /\ UNCHANGED STDOUT_BUFFERS
       \/ /\ PipeEof /\ pipeOut = <<>>
          /\ capture' = [capture EXCEPT !.out = "ended"]
          /\ UNCHANGED <<STDOUT_BUFFERS, pipeOut>>
    /\ UNCHANGED <<ctlVars, hndVars, opVars, fsVars, remVars>>
    /\ UNCHANGED <<SYNTHETIC_ID_GENERATOR, STDERR_BUFFERS, STDEXT_BUFFERS>>
    /\ UNCHANGED <<chanMsgs, pipeErr, accOut, accErr>>
    /\ UNCHANGED auxVars

\* the task spawned by spawn_capture_task, stdout: one loop iteration
Openssh_capture_task_stdout ==
    /\ backend = "openssh" /\ capture.out = "running"
    /\ \/ /\ LineReady(pipeOut, PipeEof)
          /\ pipeOut' = next_line(pipeOut).rest
          /\ IF next_line(pipeOut).ok /\ synthetic_id \in DOMAIN STDOUT_BUFFERS
             THEN /\ STDOUT_BUFFERS' = ExtendIfPresent(STDOUT_BUFFERS, synthetic_id,
                                                      Append(next_line(pipeOut).line, NL))
                  /\ UNCHANGED capture
             ELSE /\ capture' = [capture EXCEPT !.out = "ended"]
                  /\ UNCHANGED STDOUT_BUFFERS
       \/ /\ PipeEof /\ pipeOut = <<>>
          /\ capture' = [capture EXCEPT !.out = "ended"]
          /\ UNCHANGED <<STDOUT_BUFFERS, pipeOut>>
    /\ UNCHANGED <<ctlVars, hndVars, opVars, fsVars, remVars>>
    /\ UNCHANGED <<SYNTHETIC_ID_GENERATOR, STDERR_BUFFERS, STDEXT_BUFFERS>>
    /\ UNCHANGED <<chanMsgs, pipeErr, accOut, accErr>>
    /\ UNCHANGED auxVars

\* the task spawned by spawn_capture_task, stderr: one loop iteration
Openssh_capture_task_stderr ==
    /\ backend = "openssh" /\ capture.err = "running"
    /\ \/ /\ LineReady(pipeErr, PipeEof)
          /\ pipeErr' = next_line(pipeErr).rest
          /\ IF next_line(pipeErr).ok /\ synthetic_id \in DOMAIN STDERR_BUFFERS
             THEN /\ STDERR_BUFFERS' = ExtendIfPresent(STDERR_BUFFERS, synthetic_id,
                                                      Append(next_line(pipeErr).line, NL))
                  /\ UNCHANGED capture
             ELSE /\ capture' = [capture EXCEPT !.err = "ended"]
                  /\ UNCHANGED STDERR_BUFFERS
       \/ /\ PipeEof /\ pipeErr = <<>>
          /\ capture' = [capture EXCEPT !.err = "ended"]
          /\ UNCHANGED <<STDERR_BUFFERS, pipeErr>>
    /\ UNCHANGED <<ctlVars, hndVars, opVars, fsVars, remVars>>
    /\ UNCHANGED <<SYNTHETIC_ID_GENERATOR, STDOUT_BUFFERS, STDEXT_BUFFERS>>
    /\ UNCHANGED <<chanMsgs, pipeOut, accOut, accErr>>
    /\ UNCHANGED auxVars

\* OpensshLinuxProcess::write_to_stdin: the Result
Openssh_write_to_stdin_result ==
    IF ~stdin THEN "StdinNotPiped"
    ELSE IF remote = "exited" THEN "Other"
    ELSE "Ok"

Openssh_write_to_stdin ==
    /\ backend = "openssh" /\ pc = "handle" /\ opCount < MaxOps
    /\ lastOp' = [op |-> "write_to_stdin", res |-> Openssh_write_to_stdin_result]
    /\ stdinRecv' = IF Openssh_write_to_stdin_result = "Ok" THEN stdinRecv + 1 ELSE stdinRecv
    /\ opCount' = opCount + 1
    /\ UNCHANGED <<ctlVars, hndVars, fabVars, fsVars, remVars, ioVars>>
    /\ UNCHANGED closeOk
    /\ UNCHANGED auxVars

\* OpensshLinuxProcess has no send_kill_request of its own: the provided method runs
Openssh_send_kill_request ==
    /\ backend = "openssh" /\ pc = "handle" /\ opCount < MaxOps
    /\ lastOp' = [op |-> "send_kill_request", res |-> send_kill_request]
    /\ opCount' = opCount + 1
    /\ UNCHANGED <<ctlVars, hndVars, fabVars, fsVars, remVars, ioVars>>
    /\ UNCHANGED <<closeOk, stdinRecv>>
    /\ UNCHANGED auxVars

\* OpensshLinuxProcess::close_stdin: the Result
Openssh_close_stdin_result == IF stdin THEN "Ok" ELSE "StdinNotPiped"

Openssh_close_stdin ==
    /\ backend = "openssh" /\ pc = "handle" /\ opCount < MaxOps
    /\ lastOp' = [op |-> "close_stdin", res |-> Openssh_close_stdin_result]
    /\ stdin' = FALSE
    /\ closeOk' = IF Openssh_close_stdin_result = "Ok" THEN closeOk + 1 ELSE closeOk
    /\ opCount' = opCount + 1
    /\ UNCHANGED <<ctlVars, fabVars, fsVars, remVars, ioVars>>
    /\ UNCHANGED <<pid_option, channel_id, synthetic_id, status_code, result>>
    /\ UNCHANGED stdinRecv
    /\ UNCHANGED auxVars

\* get_current_output_internal
get_current_output_internal(id) ==
    [stdout |-> GetOrEmpty(STDOUT_BUFFERS, id),
     stderr |-> GetOrEmpty(STDERR_BUFFERS, id),
     stdout_extended |-> EmptyMap]

\* OpensshLinuxProcess::await_exit / await_exit_with_output: child.wait() is pending
Openssh_await(kind) ==
    /\ backend = "openssh" /\ pc = "handle"
    /\ pc' = "await"
    /\ awaiting' = kind
    /\ UNCHANGED <<backend, instance_id, call, cfg, handle>>
    /\ UNCHANGED <<hndVars, opVars, fabVars, fsVars, remVars, ioVars>>
    /\ UNCHANGED auxVars

\* child.wait() returns; await_exit_with_output reads the fabric; the handle,
\* which has no Drop implementation, goes out of scope
Openssh_await_end ==
    /\ backend = "openssh" /\ pc = "await"
    /\ remote = "exited"
    /\ status_code' = exitCode
    /\ result' = IF awaiting = "await_exit"
                 THEN [kind |-> "code", status_code |-> exitCode]
                 ELSE join(get_current_output_internal(synthetic_id), exitCode)
    /\ handle' = "dropped"
    /\ pc' = "done"
    /\ UNCHANGED <<backend, instance_id, call, cfg, awaiting>>
    /\ UNCHANGED <<stdin, pid_option, channel_id, synthetic_id>>
    /\ UNCHANGED <<opVars, fabVars, fsVars, remVars, ioVars>>
    /\ UNCHANGED auxVars

\* the caller drops the future of a pending await_exit / await_exit_with_output,
\* which owns the Box<Self>
Openssh_cancel_await ==
    /\ backend = "openssh" /\ pc = "await" /\ call = "begin_execute"
    /\ handle' = "dropped"
    /\ pc' = "done"
    /\ UNCHANGED <<backend, instance_id, call, cfg, awaiting>>
    /\ UNCHANGED <<hndVars, opVars, fabVars, fsVars, remVars, ioVars>>
    /\ UNCHANGED auxVars

\* the caller drops the OpensshLinuxProcess
Openssh_drop_handle ==
    /\ backend = "openssh" /\ pc = "handle"
    /\ handle' = "dropped"
    /\ pc' = "done"
    /\ UNCHANGED <<backend, instance_id, call, cfg, awaiting>>
    /\ UNCHANGED <<hndVars, opVars, fabVars, fsVars, remVars, ioVars>>
    /\ UNCHANGED auxVars

\* conv_finished_output
conv_finished_output(out, err, code) ==
    [kind |-> "output", stdout |-> out, stderr |-> err,
     stdout_extended |-> EmptyMap, status_code |-> code]

\* an execute that registers a stdout buffer as begin_execute does
Openssh_execute_Mut(f) ==
    /\ backend = "openssh" /\ pc = "start"
    /\ ~f.disable_extra_reads
    /\ call' = "execute"
    /\ cfg' = f
    /\ remote' = "shell"
    /\ pc' = "output"
    /\ STDOUT_BUFFERS' = Insert(STDOUT_BUFFERS, SYNTHETIC_ID_GENERATOR, <<>>)
    /\ UNCHANGED <<backend, instance_id, handle, awaiting>>
    /\ UNCHANGED <<hndVars, opVars, ioVars, fsVars>>
    /\ UNCHANGED <<SYNTHETIC_ID_GENERATOR, STDERR_BUFFERS, STDEXT_BUFFERS, capture>>
    /\ UNCHANGED <<progOut, progErr, progExt, exitCode>>
    /\ UNCHANGED auxVars

\* OpensshLinux::execute: create_owning_command and output()
Openssh_execute(f) ==
    /\ backend = "openssh" /\ pc = "start"
    /\ ~f.disable_extra_reads
    /\ call' = "execute"
    /\ cfg' = f
    /\ remote' = "shell"
    /\ pc' = "output"
    /\ UNCHANGED <<backend, instance_id, handle, awaiting>>
    /\ UNCHANGED <<hndVars, opVars, fabVars, ioVars, fsVars>>
    /\ UNCHANGED <<progOut, progErr, progExt, exitCode>>
    /\ UNCHANGED auxVars

Openssh_execute_end ==
    /\ backend = "openssh" /\ pc = "output"
    /\ OneShotComplete
    /\ result' = conv_finished_output(accOut, accErr, exitCode)
    /\ pc' = "done"
    /\ UNCHANGED <<backend, instance_id, call, cfg, handle, awaiting>>
    /\ UNCHANGED <<stdin, pid_option, channel_id, synthetic_id, status_code>>
    /\ UNCHANGED <<opVars, fabVars, fsVars, remVars, ioVars>>
    /\ UNCHANGED auxVars

\* ----------------------------------------------------------------- native
\* NativeLinux::begin_execute: create_command_from_config, spawn, stdin.take(), child.id()
Native_begin_execute(f, p) ==
    /\ backend = "native" /\ pc = "start"
    /\ call' = "begin_execute"
    /\ cfg' = f
    /\ pid_option' = Some(p)
    /\ stdin' = f.redirect_stdin
    /\ remote' = "running"
    /\ pc' = "register_stdout"
    /\ UNCHANGED <<backend, instance_id, handle, awaiting>>
    /\ UNCHANGED <<channel_id, synthetic_id, status_code, result>>
    /\ UNCHANGED <<opVars, fabVars, ioVars, fsVars>>
    /\ UNCHANGED <<progOut, progErr, progExt, exitCode>>
    /\ UNCHANGED auxVars

\* NativeLinux::begin_execute: STDOUT_BUFFERS insert and queue_capturer(&mut child, false)
Native_register_stdout ==
    /\ backend = "native" /\ pc = "register_stdout"
    /\ IF pid_option.some /\ ~cfg.disable_extra_reads /\ cfg.redirect_stdout
       THEN /\ STDOUT_BUFFERS' = Insert(STDOUT_BUFFERS, pid_option.v, <<>>)
            /\ capture' = [capture EXCEPT !.out = "running"]
       ELSE UNCHANGED <<STDOUT_BUFFERS, capture>>
    /\ pc' = "register_stderr"
    /\ UNCHANGED <<backend, instance_id, call, cfg, handle, awaiting>>
    /\ UNCHANGED <<hndVars, opVars, fsVars, remVars, ioVars>>
    /\ UNCHANGED <<SYNTHETIC_ID_GENERATOR, STDERR_BUFFERS, STDEXT_BUFFERS>>
    /\ UNCHANGED auxVars

\* NativeLinux::begin_execute: STDERR_BUFFERS insert, queue_capturer(&mut child, true),
\* Ok(Box::new(NativeLinuxProcess { .. }))
Native_register_stderr ==
    /\ backend = "native" /\ pc = "register_stderr"
    /\ IF pid_option.some /\ ~cfg.disable_extra_reads /\ cfg.redirect_stderr
       THEN /\ STDERR_BUFFERS' = Insert(STDERR_BUFFERS, pid_option.v, <<>>)
            /\ capture' = [capture EXCEPT !.err = "running"]
       ELSE UNCHANGED <<STDERR_BUFFERS, capture>>
    /\ handle' = "live"
    /\ pc' = "handle"
    /\ UNCHANGED <<backend, instance_id, call, cfg, awaiting>>
    /\ UNCHANGED <<hndVars, opVars, fsVars, remVars, ioVars>>
    /\ UNCHANGED <<SYNTHETIC_ID_GENERATOR, STDOUT_BUFFERS, STDEXT_BUFFERS>>
    /\ UNCHANGED auxVars

\* the task spawned by queue_capturer(child, false): one loop iteration. When
\* the loop breaks the task ends and its reader, the read end of the child's
\* pipe, is dropped (NativePipeClosed)
Native_capture_task_stdout ==
    /\ backend = "native" /\ capture.out = "running"
    /\ \/ /\ LineReady(pipeOut, PipeEof)
          /\ pipeOut' = next_line(pipeOut).rest
          /\ IF next_line(pipeOut).ok /\ pid_option.v \in DOMAIN STDOUT_BUFFERS
             THEN /\ STDOUT_BUFFERS' = ExtendIfPresent(STDOUT_BUFFERS, pid_option.v,
                                                      next_line(pipeOut).line \o <<NL>>)
                  /\ UNCHANGED capture
             ELSE /\ capture' = [capture EXCEPT !.out = "ended"]
                  /\ UNCHANGED STDOUT_BUFFERS
       \/ /\ PipeEof /\ pipeOut = <<>>
          /\ capture' = [capture EXCEPT !.out = "ended"]
          /\ UNCHANGED <<STDOUT_BUFFERS, pipeOut>>
    /\ UNCHANGED <<ctlVars, hndVars, opVars, fsVars, remVars>>
    /\ UNCHANGED <<SYNTHETIC_ID_GENERATOR, STDERR_BUFFERS, STDEXT_BUFFERS>>
    /\ UNCHANGED <<chanMsgs, pipeErr, accOut, accErr>>
    /\ UNCHANGED auxVars

\* the task spawned by queue_capturer(child, true): one loop iteration; its
\* write_ref is STDOUT_BUFFERS as well. With no stdout entry under the PID it
\* breaks on its first line and the stderr pipe is closed
Native_capture_task_stderr ==
    /\ backend = "native" /\ capture.err = "running"
    /\ \/ /\ LineReady(pipeErr, PipeEof)
          /\ pipeErr' = next_line(pipeErr).rest
          /\ IF next_line(pipeErr).ok /\ pid_option.v \in DOMAIN STDOUT_BUFFERS
             THEN /\ STDOUT_BUFFERS' = ExtendIfPresent(STDOUT_BUFFERS, pid_option.v,
                                                      next_line(pipeErr).line \o <<NL>>)
                  /\ UNCHANGED capture
             ELSE /\ capture' = [capture EXCEPT !.err = "ended"]
                  /\ UNCHANGED STDOUT_BUFFERS
       \/ /\ PipeEof /\ pipeErr = <<>>
          /\ capture' = [capture EXCEPT !.err = "ended"]
          /\ UNCHANGED <<STDOUT_BUFFERS, pipeErr>>
    /\ UNCHANGED <<ctlVars, hndVars, opVars, fsVars, remVars>>
    /\ UNCHANGED <<SYNTHETIC_ID_GENERATOR, STDERR_BUFFERS, STDEXT_BUFFERS>>
    /\ UNCHANGED <<chanMsgs, pipeOut, accOut, accErr>>
    /\ UNCHANGED auxVars

\* NativeLinuxProcess::write_to_stdin: the Result
Native_write_to_stdin_result ==
    IF ~stdin THEN "StdinNotPiped"
    ELSE IF remote = "exited" THEN "IO"
    ELSE "Ok"

Native_write_to_stdin ==
    /\ backend = "native" /\ pc = "handle" /\ opCount < MaxOps
    /\ lastOp' = [op |-> "write_to_stdin", res |-> Native_write_to_stdin_result]
    /\ stdinRecv' = IF Native_write_to_stdin_result = "Ok" THEN stdinRecv + 1 ELSE stdinRecv
    /\ opCount' = opCount + 1
    /\ UNCHANGED <<ctlVars, hndVars, fabVars, fsVars, remVars, ioVars>>
    /\ UNCHANGED closeOk
    /\ UNCHANGED auxVars

\* NativeLinuxProcess::begin_kill: the Results child.start_kill() can give.
\* For a child whose exit await_exit has already collected the outcome is
\* the runtime's: tokio before 1.44 refuses (InvalidInput), later versions
\* return Ok(()) and do nothing.
Native_begin_kill_results == IF result.kind = "code" THEN {"Ok", "IO"} ELSE {"Ok"}

\* NativeLinuxProcess::begin_kill: start_kill sends SIGKILL to the child and
\* returns; the child ends later (RemoteKilled)
Native_begin_kill ==
    /\ backend = "native" /\ pc = "handle" /\ opCount < MaxOps
    /\ \E res \in Native_begin_kill_results :
          /\ lastOp' = [op |-> "send_kill_request", res |-> res]
          /\ remote' = IF res = "Ok" /\ remote = "running" THEN "killed" ELSE remote
          /\ UNCHANGED exitCode
    /\ opCount' = opCount + 1
    /\ UNCHANGED <<ctlVars, hndVars, fabVars, fsVars, ioVars>>
    /\ UNCHANGED <<progOut, progErr, progExt, closeOk, stdinRecv>>
    /\ UNCHANGED auxVars

\* NativeLinuxProcess::close_stdin: the Result
Native_close_stdin_result == IF stdin THEN "Ok" ELSE "StdinNotPiped"

Native_close_stdin ==
    /\ backend = "native" /\ pc = "handle" /\ opCount < MaxOps
    /\ lastOp' = [op |-> "close_stdin", res |-> Native_close_stdin_result]
    /\ stdin' = FALSE
    /\ closeOk' = IF Native_close_stdin_result = "Ok" THEN closeOk + 1 ELSE closeOk
    /\ opCount' = opCount + 1
    /\ UNCHANGED <<ctlVars, fabVars, fsVars, remVars, ioVars>>
    /\ UNCHANGED <<pid_option, channel_id, synthetic_id, status_code, result>>
    /\ UNCHANGED stdinRecv
    /\ UNCHANGED auxVars

\* get_process_output
get_process_output(out, err, code, redirect_stdout, redirect_stderr) ==
    [kind |-> "output",
     stdout |-> IF redirect_stdout THEN out ELSE <<>>,
     stderr |-> IF redirect_stderr THEN err ELSE <<>>,
     stdout_some |-> redirect_stdout,
     stderr_some |-> redirect_stderr,
     stdout_extended |-> EmptyMap,
     status_code |-> code]

\* NativeLinuxProcess::await_exit(&mut self) / await_exit_with_output(mut self):
\* child.wait() / child.wait_with_output() is pending
Native_await(kind) ==
    /\ backend = "native" /\ pc = "handle"
    /\ pc' = "await"
    /\ awaiting' = kind
    /\ UNCHANGED <<backend, instance_id, call, cfg, handle>>
    /\ UNCHANGED <<hndVars, opVars, fabVars, fsVars, remVars, ioVars>>
    /\ UNCHANGED auxVars

\* NativeLinuxProcess::await_exit returns; the handle stays with the caller
Native_await_exit_end ==
    /\ backend = "native" /\ pc = "await" /\ awaiting = "await_exit"
    /\ remote = "exited"
    /\ status_code' = exitCode
    /\ result' = [kind |-> "code", status_code |-> exitCode]
    /\ pc' = "handle"
    /\ awaiting' = "none"
    /\ UNCHANGED <<backend, instance_id, call, cfg, handle>>
    /\ UNCHANGED <<stdin, pid_option, channel_id, synthetic_id>>
    /\ UNCHANGED <<opVars, fabVars, fsVars, remVars, ioVars>>
    /\ UNCHANGED auxVars

\* NativeLinuxProcess::await_exit_with_output returns; the handle, which has no
\* Drop implementation, is consumed
Native_await_exit_with_output_end ==
    /\ backend = "native" /\ pc = "await" /\ awaiting = "await_exit_with_output"
    /\ OneShotComplete
    /\ status_code' = exitCode
    /\ result' = get_process_output(accOut, accErr, exitCode,
                                    cfg.redirect_stdout, cfg.redirect_stderr)
    /\ handle' = "dropped"
    /\ pc' = "done"
    /\ UNCHANGED <<backend, instance_id, call, cfg, awaiting>>
    /\ UNCHANGED <<stdin, pid_option, channel_id, synthetic_id>>
    /\ UNCHANGED <<opVars, fabVars, fsVars, remVars, ioVars>>
    /\ UNCHANGED auxVars

\* the caller drops the future of a pending await: await_exit only borrows the
\* handle (child.wait() can be called again), await_exit_with_output owns it
Native_cancel_await ==
    /\ backend = "native" /\ pc = "await" /\ call = "begin_execute"
    /\ IF awaiting = "await_exit"
       THEN pc' = "handle" /\ awaiting' = "none" /\ UNCHANGED handle
       ELSE pc' = "done" /\ handle' = "dropped" /\ UNCHANGED awaiting
    /\ UNCHANGED <<backend, instance_id, call, cfg>>
    /\ UNCHANGED <<hndVars, opVars, fabVars, fsVars, remVars, ioVars>>
    /\ UNCHANGED auxVars

\* the caller drops the NativeLinuxProcess
Native_drop_handle ==
    /\ backend = "native" /\ pc = "handle"
    /\ handle' = "dropped"
    /\ pc' = "done"
    /\ UNCHANGED <<backend, instance_id, call, cfg, awaiting>>
    /\ UNCHANGED <<hndVars, opVars, fabVars, fsVars, remVars, ioVars>>
    /\ UNCHANGED auxVars

\* NativeLinux::execute: create_command_from_config and command.output()
Native_execute(f) ==
    /\ backend = "native" /\ pc = "start"
    /\ call' = "execute"
    /\ cfg' = f
    /\ remote' = "running"
    /\ pc' = "output"
    /\ UNCHANGED <<backend, instance_id, handle, awaiting>>
    /\ UNCHANGED <<hndVars, opVars, fabVars, ioVars, fsVars>>
    /\ UNCHANGED <<progOut, progErr, progExt, exitCode>>
    /\ UNCHANGED auxVars

Native_execute_end ==
    /\ backend = "native" /\ pc = "output"
    /\ OneShotComplete
    /\ result' = get_process_output(accOut, accErr, exitCode,
                                    cfg.redirect_stdout, cfg.redirect_stderr)
    /\ pc' = "done"
    /\ UNCHANGED <<backend, instance_id, call, cfg, handle, awaiting>>
    /\ UNCHANGED <<stdin, pid_option, channel_id, synthetic_id, status_code>>
    /\ UNCHANGED <<opVars, fabVars, fsVars, remVars, ioVars>>
    /\ UNCHANGED auxVars

Next ==
    \/ RemoteShellRedirect
    \/ \E t \in PidTexts : RemoteShellEcho(t)
    \/ FsOutage
    \/ FsRecover
    \/ \E b \in Bytes : RemoteWriteStdout(b)
    \/ \E b \in ErrBytes : RemoteWriteStderr(b)
    \/ \E e \in ExtStreams, b \in ExtBytes : RemoteWriteExt(e, b)
    \/ \E code \in ExitCodes : RemoteExit(code)
    \/ RemoteKilled
    \/ RemoteSigpipe
    \/ RemoteClose
    \/ PidDiscoveryLoop
    \/ \E c \in {"execute", "begin_execute"}, f \in Configs :
          Russh_begin_execute_internal(c, f)
    \/ Russh_register_stdout
    \/ Russh_register_stderr
    \/ Russh_return
    \/ Russh_write_to_stdin
    \/ Russh_close_stdin
    \/ Russh_send_kill_request
    \/ \E kind \in {"await_exit", "await_exit_with_output"} : Russh_await(kind)
    \/ Russh_await_process_exit_msg
    \/ Russh_await_process_exit_end
    \/ Russh_cancel_await
    \/ Russh_drop_handle
    \/ OneShotReadStdout
    \/ OneShotReadStderr
    \/ \E f \in Configs : Openssh_begin_execute(f)
    \/ Openssh_spawn_capture_task_stdout
    \/ Openssh_spawn_capture_task_stderr
    \/ Openssh_return
    \/ Openssh_capture_task_stdout
    \/ Openssh_capture_task_stderr
    \/ Openssh_write_to_stdin
    \/ Openssh_close_stdin
    \/ Openssh_send_kill_request
    \/ \E kind \in {"await_exit", "await_exit_with_output"} : Openssh_await(kind)
    \/ Openssh_await_end
    \/ Openssh_cancel_await
    \/ Openssh_drop_handle
    \/ \E f \in Configs : Openssh_execute(f)
    \/ Openssh_execute_end
    \/ \E f \in Configs, p \in OsPids : Native_begin_execute(f, p)
    \/ Native_register_stdout
    \/ Native_register_stderr
    \/ Native_capture_task_stdout
    \/ Native_capture_task_stderr
    \/ Native_write_to_stdin
    \/ Native_close_stdin
    \/ Native_begin_kill
    \/ \E kind \in {"await_exit", "await_exit_with_output"} : Native_await(kind)
    \/ Native_await_exit_end
    \/ Native_await_exit_with_output_end
    \/ Native_cancel_await
    \/ Native_drop_handle
    \/ \E f \in Configs : Native_execute(f)
    \/ Native_execute_end

Spec == Init /\ [][Next]_vars

\* the tasks the executor has already scheduled: the calling task between two
\* of its suspension points, the await loops and the spawned capture tasks
ProgramStep ==
    \/ PidDiscoveryLoop
    \/ Russh_register_stdout \/ Russh_register_stderr \/ Russh_return
    \/ Russh_await_process_exit_msg \/ Russh_await_process_exit_end
    \/ OneShotReadStdout \/ OneShotReadStderr
    \/ Openssh_spawn_capture_task_stdout \/ Openssh_spawn_capture_task_stderr
    \/ Openssh_return
    \/ Openssh_capture_task_stdout \/ Openssh_capture_task_stderr
    \/ Openssh_await_end \/ Openssh_execute_end
    \/ Native_register_stdout \/ Native_register_stderr
    \/ Native_capture_task_stdout \/ Native_capture_task_stderr
    \/ Native_await_exit_end \/ Native_await_exit_with_output_end
    \/ Native_execute_end

\* the runtime keeps polling scheduled tasks; nothing is assumed of the host
\* or of the caller
FairSpec == Init /\ [][Next]_vars /\ WF_vars(PidDiscoveryLoop) /\ WF_vars(ProgramStep)

\* PID discovery on the SSH backends: begin_execute up to the returned handle,
\* the subshell writing the handoff file, the filesystem port and the program's
\* end; the program's output and the handle's operations are left out, they
\* touch neither the handoff file nor the loop
PidInit == Init /\ backend \in {"russh", "openssh"}

PidNext ==
    \/ RemoteShellRedirect
    \/ \E t \in PidTexts : RemoteShellEcho(t)
    \/ FsOutage
    \/ FsRecover
    \/ \E code \in ExitCodes : RemoteExit(code)
    \/ PidDiscoveryLoop
    \/ \E f \in Configs : Russh_begin_execute_internal("begin_execute", f)
    \/ Russh_register_stdout
    \/ Russh_register_stderr
    \/ Russh_return
    \/ Russh_drop_handle
    \/ \E f \in Configs : Openssh_begin_execute(f)
    \/ Openssh_spawn_capture_task_stdout
    \/ Openssh_spawn_capture_task_stderr
    \/ Openssh_return
    \/ Openssh_drop_handle

PidSpec == PidInit /\ [][PidNext]_vars /\ WF_vars(PidDiscoveryLoop)

\* ------------------------------------------------------------ permissions
\* LinuxPermissions::all().bits()
AllBits ==
    SET_UID + SET_GID + STICKY_BIT + OWNER_READ + OWNER_WRITE + OWNER_EXECUTE
        + GROUP_READ + GROUP_WRITE + GROUP_EXECUTE + OTHER_READ + OTHER_WRITE + OTHER_EXECUTE

\* every LinuxPermissions value made of defined flags
LinuxPermissionsValues == 0..AllBits

\* st_mode file-type bits an OS or an SFTP server reports next to the
\* permission bits: none, S_IFDIR, S_IFREG
FileTypeBits == {0, 16384, 32768}

RawModes == {t + m : t \in FileTypeBits, m \in LinuxPermissionsValues}

\* LinuxPermissions::contains for a single flag
contains(value, flag) == (value \div flag) % 2 = 1

\* LinuxPermissions::bits
bits(value) == value

\* LinuxPermissions::from_bits: None when a bit outside the defined flags is set
from_bits(mode) == IF mode \div (AllBits + 1) = 0 THEN Some(mode) ELSE None

\* LinuxPermissions::from_bits_retain
from_bits_retain(mode) == mode

\* impl Into<Permissions> for LinuxPermissions (proxy-SSH SFTP permission record)
Openssh_into_Permissions(self) ==
    [execute_by_owner |-> contains(self, OWNER_EXECUTE),
     execute_by_group |-> contains(self, GROUP_EXECUTE),
     execute_by_other |-> contains(self, OTHER_EXECUTE),
     write_by_owner |-> contains(self, OWNER_WRITE),
     write_by_group |-> contains(self, GROUP_WRITE),
     write_by_other |-> contains(self, OTHER_WRITE),
     read_by_owner |-> contains(self, OWNER_READ),
     read_by_group |-> contains(self, GROUP_READ),
     read_by_other |-> contains(self, OWNER_READ),
     suid |-> contains(self, SET_UID),
     sgid |-> contains(self, SET_GID),
     svtx |-> contains(self, STICKY_BIT)]

\* LinuxPermissions::set on an empty value
flag_if(flag, on) == IF on THEN flag ELSE 0

\* impl From<Permissions> for LinuxPermissions
Openssh_from_Permissions(value) ==
    flag_if(SET_UID, value.suid) + flag_if(SET_GID, value.sgid)
        + flag_if(STICKY_BIT, value.svtx)
        + flag_if(OWNER_EXECUTE, value.execute_by_owner)
        + flag_if(GROUP_EXECUTE, value.execute_by_group)
        + flag_if(OTHER_EXECUTE, value.execute_by_other)
        + flag_if(OWNER_WRITE, value.write_by_owner)
        + flag_if(GROUP_WRITE, value.write_by_group)
        + flag_if(OTHER_WRITE, value.write_by_other)
        + flag_if(OWNER_READ, value.read_by_owner)
        + flag_if(GROUP_READ, value.read_by_group)
        + flag_if(OTHER_READ, value.read_by_other)

\* every variable of the executor keeps its initial value
ExecIdle == ExecInit /\ chanLog = <<>>

\* a conversion is applied once to the value handed in
Convert(op, out) ==
    /\ permOp = "none"
    /\ permOp' = op
    /\ permOut' = out
    /\ UNCHANGED <<execVars, extVars, chanLog, permIn, portVars>>

\* raw mode bits: bits() then from_bits
RoundTripBits ==
    /\ permIn \in LinuxPermissionsValues
    /\ Convert("bits", from_bits(bits(permIn)))

\* LinuxPermissions -> Permissions -> LinuxPermissions
RoundTripSftp ==
    /\ permIn \in LinuxPermissionsValues
    /\ Convert("sftp", Some(Openssh_from_Permissions(Openssh_into_Permissions(permIn))))

\* the Permissions record the SFTP client library builds from a mode word
Sftp_Permissions_of_mode(mode) ==
    [execute_by_owner |-> contains(mode, OWNER_EXECUTE),
     execute_by_group |-> contains(mode, GROUP_EXECUTE),
     execute_by_other |-> contains(mode, OTHER_EXECUTE),
     write_by_owner |-> contains(mode, OWNER_WRITE),
     write_by_group |-> contains(mode, GROUP_WRITE),
     write_by_other |-> contains(mode, OTHER_WRITE),
     read_by_owner |-> contains(mode, OWNER_READ),
     read_by_group |-> contains(mode, GROUP_READ),
     read_by_other |-> contains(mode, OTHER_READ),
     suid |-> contains(mode, SET_UID),
     sgid |-> contains(mode, SET_GID),
     svtx |-> contains(mode, STICKY_BIT)]

\* impl TryFrom<Permissions> for LinuxPermissions: Err(UnknownBitSet) is None
TryFrom_Permissions ==
    /\ permIn \in RawModes
    /\ Convert("try_from", from_bits(permIn))

\* impl Into<LinuxFileMetadata> for FileAttributes (library-SSH): permissions
Russh_FileAttributes_into ==
    /\ permIn \in RawModes
    /\ Convert("file_attributes", Some(from_bits_retain(permIn)))

\* impl Into<LinuxFileMetadata> for MetaData (proxy-SSH): permissions
Openssh_MetaData_into ==
    /\ permIn \in RawModes
    /\ Convert("meta_data", Some(Openssh_from_Permissions(Sftp_Permissions_of_mode(permIn))))

PermInit ==
    /\ ExecIdle
    /\ permIn \in RawModes /\ permOp = "none" /\ permOut = None
    /\ PortIdle
    /\ ExtIdle

PermNext ==
    \/ RoundTripBits
    \/ RoundTripSftp
    \/ TryFrom_Permissions
    \/ Russh_FileAttributes_into
    \/ Openssh_MetaData_into

PermSpec == PermInit /\ [][PermNext]_vars

\* ------------------------------------------------ await on a closed channel
\* the messages Channel::wait() can hand to await_process_exit
ChannelMsgs ==
    {[type |-> "Data"], [type |-> "Eof"], [type |-> "ExitSignal"]}
        \cup {[type |-> "ExitStatus", exit_status |-> c] : c \in ExitCodes}

MsgSeqs == UNION {[1..n -> ChannelMsgs] : n \in 0..MaxMsgs}

\* a handle returned by begin_execute whose await_exit* call has just locked
\* the channel; the server has sent msgs and closed the channel
AwaitInit ==
    /\ backend = "russh"
    /\ instance_id = 1
    /\ call = "begin_execute"
    /\ cfg = [redirect_stdin |-> FALSE, redirect_stdout |-> FALSE, redirect_stderr |-> FALSE,
              disable_extra_reads |-> FALSE]
    /\ pc = "await"
    /\ handle = "live"
    /\ awaiting \in {"await_exit", "await_exit_with_output"}
    /\ stdin = FALSE
    /\ pid_option = Some(42)
    /\ channel_id = 1
    /\ synthetic_id = 0
    /\ status_code = None
    /\ result = NoResult
    /\ lastOp = NoOp
    /\ opCount = 0
    /\ closeOk = 0
    /\ stdinRecv = 0
    /\ SYNTHETIC_ID_GENERATOR = 0
    /\ STDOUT_BUFFERS = EmptyMap
    /\ STDERR_BUFFERS = EmptyMap
    /\ STDEXT_BUFFERS = EmptyMap
    /\ capture = [out |-> "none", err |-> "none"]
    /\ remote = "closed"
    /\ pidFile = [exists |-> TRUE, content |-> <<"4", "2", "\n">>]
    /\ fsUp = TRUE
    /\ pollAttempts = 0
    /\ progOut = <<>>
    /\ progErr = <<>>
    /\ progExt = <<>>
    /\ exitCode = None
    /\ chanMsgs \in MsgSeqs
    /\ chanLog = chanMsgs
    /\ pipeOut = <<>>
    /\ pipeErr = <<>>
    /\ accOut = <<>>
    /\ accErr = <<>>
    /\ PermIdle
    /\ ExtIdle
    /\ PortIdle

AwaitNext ==
    \/ Russh_await_process_exit_msg
    \/ Russh_await_process_exit_end

AwaitSpec == AwaitInit /\ [][AwaitNext]_vars

\* ------------------------------------- set_permissions then get_metadata
\* chmod(2) on the host, also what an SFTP server does with a SETSTAT
\* request: the file-type bits stay, the low twelve bits are replaced
Host_chmod(mode, perm) ==
    ((mode \div (AllBits + 1)) * (AllBits + 1)) + (perm % (AllBits + 1))

\* the mode word the SFTP client library puts on the wire for a Permissions record
Sftp_mode_of_Permissions(value) ==
    flag_if(SET_UID, value.suid) + flag_if(SET_GID, value.sgid)
        + flag_if(STICKY_BIT, value.svtx)
        + flag_if(OWNER_READ, value.read_by_owner)
        + flag_if(OWNER_WRITE, value.write_by_owner)
        + flag_if(OWNER_EXECUTE, value.execute_by_owner)
        + flag_if(GROUP_READ, value.read_by_group)
        + flag_if(GROUP_WRITE, value.write_by_group)
        + flag_if(GROUP_EXECUTE, value.execute_by_group)
        + flag_if(OTHER_READ, value.read_by_other)
        + flag_if(OTHER_WRITE, value.write_by_other)
        + flag_if(OTHER_EXECUTE, value.execute_by_other)

\* impl Into<Permissions> for LinuxPermissions (std): Permissions::from_mode(self.bits())
Std_into_Permissions(self) == bits(self)

\* one set_permissions(p, permissions) call that puts `wire` in the request;
\* ok is whether the host carried the request out
SetPermissions(permissions, wire, ok) ==
    /\ fsOp.op = "none"
    /\ fsCount < MaxFsOps
    /\ fsCount' = fsCount + 1
    /\ fileMode' = IF ok THEN Host_chmod(fileMode, wire) ELSE fileMode
    /\ fsOp' = [op |-> "set_permissions", arg |-> permissions,
                res |-> IF ok THEN "Ok" ELSE "IO", out |-> None, mkdirs |-> {}]
    /\ UNCHANGED <<execVars, extVars, chanLog, permVars, nodes, fsChan>>

Russh_set_permissions ==
    /\ backend = "russh"
    /\ \E permissions \in LinuxPermissionsValues, ok \in BOOLEAN :
          SetPermissions(permissions, bits(permissions), ok)

Openssh_set_permissions ==
    /\ backend = "openssh"
    /\ \E permissions \in LinuxPermissionsValues, ok \in BOOLEAN :
          SetPermissions(permissions,
                         Sftp_mode_of_Permissions(Openssh_into_Permissions(permissions)), ok)

Native_set_permissions ==
    /\ backend = "native"
    /\ \E permissions \in LinuxPermissionsValues, ok \in BOOLEAN :
          SetPermissions(permissions, Std_into_Permissions(permissions), ok)

\* one get_metadata(p) call on the existing file; permissions is what the
\* returned LinuxFileMetadata carries
GetMetadataOf(permissions) ==
    /\ fsOp.op # "get_metadata"
    /\ fsCount < MaxFsOps
    /\ fsCount' = fsCount + 1
    /\ fsOp' = [op |-> "get_metadata", arg |-> 0, res |-> "Ok", out |-> permissions,
                mkdirs |-> {}]
    /\ UNCHANGED <<execVars, extVars, chanLog, permVars, fileMode, nodes, fsChan>>

Russh_get_metadata ==
    /\ backend = "russh"
    /\ GetMetadataOf(Some(from_bits_retain(fileMode)))

Openssh_get_metadata ==
    /\ backend = "openssh"
    /\ GetMetadataOf(Some(Openssh_from_Permissions(Sftp_Permissions_of_mode(fileMode))))

\* std Metadata::permissions(): the Permissions whose mode() is st_mode
Native_get_metadata ==
    /\ backend = "native"
    /\ GetMetadataOf(Some(fileMode))

\* an existing regular file with mode 000, 644 or 7777
ChmodInit ==
    /\ ExecIdle
    /\ PermIdle
    /\ ExtIdle
    /\ fileMode \in {32768 + m : m \in {0, 420, AllBits}}
    /\ nodes = [d \in 1..MaxDepth |-> "none"]
    /\ fsOp = NoFsOp
    /\ fsCount = 0
    /\ fsChan = <<>>

ChmodNext ==
    \/ Russh_set_permissions
    \/ Openssh_set_permissions
    \/ Native_set_permissions
    \/ Russh_get_metadata
    \/ Openssh_get_metadata
    \/ Native_get_metadata

ChmodSpec == ChmodInit /\ [][ChmodNext]_vars

\* ------------------------------------------------ create_dir_recursively
\* The path p is /c1/.../ck, named by its depth k; nodes[d] is what the host
\* has at the prefix of depth d.
NodeKinds == {"none", "dir", "file"}

\* host states: something exists at depth d only inside a directory
NodeStates ==
    {ns \in [1..MaxDepth -> NodeKinds] : \A d \in 2..MaxDepth : ns[d] # "none" => ns[d - 1] = "dir"}

\* SftpSession::try_exists: Ok(true) for any kind of node, Ok(false) when the
\* server answers "no such file"
Sftp_try_exists(ns, d) == ns[d] # "none"

\* SftpSession::create_dir succeeds only for a missing node inside a directory
Sftp_create_dir_ok(ns, d) == ns[d] = "none" /\ (d = 1 \/ ns[d - 1] = "dir")

\* `mkdir -p` on the host and tokio::fs::create_dir_all: every missing
\* component is made; the call fails when a component is not a directory
MkdirP(k, ns) ==
    IF \E d \in 1..k : ns[d] = "file"
    THEN [status |-> 1, nodes |-> ns, mkdirs |-> {}]
    ELSE [status |-> 0, nodes |-> [d \in 1..MaxDepth |-> IF d <= k THEN "dir" ELSE ns[d]],
          mkdirs |-> {d \in 1..k : ns[d] = "none"}]

\* run_fs_command of the proxy-SSH filesystem: Ok iff status.success()
Openssh_run_fs_command_result(status) == IF status = 0 THEN "Ok" ELSE "IO"

\* one create_dir_recursively(/c1/.../ck) call with outcome r
CreateDirRecursivelyOf(k, r) ==
    /\ fsCount < MaxFsOps
    /\ fsCount' = fsCount + 1
    /\ nodes' = r.nodes
    /\ fsOp' = [op |-> "create_dir_recursively", arg |-> k, res |-> r.res, out |-> None,
                mkdirs |-> r.mkdirs]
    /\ UNCHANGED <<execVars, extVars, chanLog, permVars, fileMode, fsChan>>

\* RusshLinux::create_dir_recursively is a sequence of SFTP requests with an
\* await at each; the session has no lock, so requests of other calls on the
\* instance fall in between
dirFrame ==
    <<execVars, chanLog, permVars, fileMode, fsChan, desugarVars, snapVars, idVars,
      mutexVars, fileVars, inner, lockVars, termVars>>

\* the call is made: current_path empty, previous_existed = false
Russh_create_dir_call(c, k) ==
    /\ backend = "russh"
    /\ dirCalls[c].pc = "idle"
    /\ fsCount < MaxFsOps
    /\ fsCount' = fsCount + 1
    /\ dirCalls' = [dirCalls EXCEPT ![c] =
                       [pc |-> "loop", k |-> k, d |-> 1, previous_existed |-> FALSE,
                        issued |-> {}, start |-> nodes, res |-> "none",
                        sftp_failed |-> FALSE]]
    /\ UNCHANGED <<dirFrame, nodes, fsOp>>

\* the loop ends after component k with Ok(())
DirCallAfter(dc) ==
    IF dc.d > dc.k THEN [dc EXCEPT !.pc = "return", !.res = "Ok"] ELSE dc

\* a component while no component existed: sftp_session.try_exists(..).await,
\* then `continue`; Err(err) returns
Russh_create_dir_try_exists(c, sftp_ok) ==
    /\ dirCalls[c].pc = "loop" /\ ~dirCalls[c].previous_existed
    /\ dirCalls' = [dirCalls EXCEPT ![c] =
                       IF sftp_ok
                       THEN DirCallAfter([@ EXCEPT !.previous_existed = Sftp_try_exists(nodes, dirCalls[c].d),
                                                   !.d = @ + 1])
                       ELSE [@ EXCEPT !.pc = "return", !.res = "IO", !.sftp_failed = TRUE]]
    /\ UNCHANGED <<dirFrame, nodes, fsOp, fsCount>>

\* a component after one existed: sftp_session.create_dir(..).await
Russh_create_dir_create_dir(c) ==
    /\ dirCalls[c].pc = "loop" /\ dirCalls[c].previous_existed
    /\ IF Sftp_create_dir_ok(nodes, dirCalls[c].d)
       THEN /\ nodes' = [nodes EXCEPT ![dirCalls[c].d] = "dir"]
            /\ dirCalls' = [dirCalls EXCEPT ![c] =
                               DirCallAfter([@ EXCEPT !.issued = @ \cup {dirCalls[c].d},
                                                       !.d = @ + 1])]
       ELSE /\ dirCalls' = [dirCalls EXCEPT ![c].pc = "return", ![c].res = "IO",
                                            ![c].issued = @ \cup {dirCalls[c].d}]
            /\ UNCHANGED nodes
    /\ UNCHANGED <<dirFrame, fsOp, fsCount>>

\* the caller gets the Result
Russh_create_dir_return(c) ==
    /\ dirCalls[c].pc = "return"
    /\ fsOp' = [op |-> "create_dir_recursively", arg |-> dirCalls[c].k, res |-> dirCalls[c].res,
                out |-> None, mkdirs |-> dirCalls[c].issued]
    /\ dirCalls' = [dirCalls EXCEPT ![c] = NoDirCall]
    /\ UNCHANGED <<dirFrame, nodes, fsCount>>

Openssh_create_dir_recursively ==
    /\ backend = "openssh"
    /\ \E k \in 1..MaxDepth :
          LET m == MkdirP(k, nodes)
          IN  CreateDirRecursivelyOf(k, [res |-> Openssh_run_fs_command_result(m.status),
                                         nodes |-> m.nodes, mkdirs |-> m.mkdirs])

Native_create_dir_recursively ==
    /\ backend = "native"
    /\ \E k \in 1..MaxDepth :
          LET m == MkdirP(k, nodes)
          IN  CreateDirRecursivelyOf(k, [res |-> IF m.status = 0 THEN "Ok" ELSE "IO",
                                         nodes |-> m.nodes, mkdirs |-> m.mkdirs])

DirInit ==
    /\ ExecIdle
    /\ PermIdle
    /\ ExtIdle
    /\ fileMode = 0
    /\ nodes \in NodeStates
    /\ fsOp = NoFsOp
    /\ fsCount = 0
    /\ fsChan = <<>>

DirNext ==
    \/ \E c \in 1..MaxDirCalls, k \in 1..MaxDepth : Russh_create_dir_call(c, k)
    \/ \E c \in 1..MaxDirCalls, sftp_ok \in BOOLEAN : Russh_create_dir_try_exists(c, sftp_ok)
    \/ \E c \in 1..MaxDirCalls : Russh_create_dir_create_dir(c)
    \/ \E c \in 1..MaxDirCalls : Russh_create_dir_return(c)
    \/ Openssh_create_dir_recursively
    \/ Native_create_dir_recursively

DirSpec == DirInit /\ [][DirNext]_vars

\* ------------------------------------------- run_fs_command (library-SSH)
\* copy_file and remove_dir_recursively run `cp` / `rm -r` on the filesystem
\* channel; chanLog is what the server sends for the command before the
\* channel ends, fsChan what Channel::wait() has not handed over yet.

\* run_fs_command up to `let mut code = None`: chan.exec failed or not
Russh_run_fs_command_exec(op, exec_ok) ==
    /\ fsOp.op = "none"
    /\ fsCount < MaxFsOps
    /\ fsCount' = fsCount + 1
    /\ fsOp' = [op |-> op, arg |-> 0, res |-> IF exec_ok THEN "pending" ELSE "IO",
                out |-> None, mkdirs |-> {}]
    /\ UNCHANGED <<execVars, extVars, chanLog, permVars, fileMode, nodes, fsChan>>

Russh_copy_file ==
    /\ backend = "russh"
    /\ \E exec_ok \in BOOLEAN : Russh_run_fs_command_exec("copy_file", exec_ok)

Russh_remove_dir_recursively ==
    /\ backend = "russh"
    /\ \E exec_ok \in BOOLEAN : Russh_run_fs_command_exec("remove_dir_recursively", exec_ok)

\* one iteration of the loop: chan.wait() returned Some(msg); fsOp.out is `code`
Russh_run_fs_command_msg ==
    /\ backend = "russh"
    /\ fsOp.res = "pending"
    /\ fsChan # <<>>
    /\ fsOp' = [fsOp EXCEPT !.out = IF Head(fsChan).type = "ExitStatus"
                                    THEN Some(Head(fsChan).exit_status)
                                    ELSE @]
    /\ fsChan' = Tail(fsChan)
    /\ UNCHANGED <<execVars, extVars, chanLog, permVars, fileMode, nodes, fsCount>>

\* chan.wait() returned None: run_fs_command returns Ok(code), which
\* copy_file maps to Ok(None) and remove_dir_recursively to Ok(())
Russh_run_fs_command_end ==
    /\ backend = "russh"
    /\ fsOp.res = "pending"
    /\ fsChan = <<>>
    /\ fsOp' = [fsOp EXCEPT !.res = "Ok", !.out = None]
    /\ UNCHANGED <<execVars, extVars, chanLog, permVars, fileMode, nodes, fsCount, fsChan>>

FsCmdInit ==
    /\ ExecInit
    /\ backend = "russh"
    /\ fsChan \in MsgSeqs
    /\ chanLog = fsChan
    /\ PermIdle
    /\ ExtIdle
    /\ fileMode = 0
    /\ nodes = [d \in 1..MaxDepth |-> "none"]
    /\ fsOp = NoFsOp
    /\ fsCount = 0

FsCmdNext ==
    \/ Russh_copy_file
    \/ Russh_remove_dir_recursively
    \/ Russh_run_fs_command_msg
    \/ Russh_run_fs_command_end

FsCmdSpec == FsCmdInit /\ [][FsCmdNext]_vars

\* ------------------------------------------------------------ exists(p)
\* what can keep a stat of p from being answered by the node itself
StatFaults == {"none", "permission_denied", "transport"}

\* outcome of the SFTP stat of the prefix of depth k
Sftp_metadata(ns, k, fault) ==
    IF fault # "none" THEN fault
    ELSE IF ns[k] = "none" THEN "no_such_file"
    ELSE ns[k]

\* SftpSession::try_exists: Ok(true) on an answer, Ok(false) on the status
\* "no such file", the error otherwise
Sftp_try_exists_result(stat) ==
    IF stat \in {"dir", "file"} THEN [res |-> "Ok", out |-> Some(TRUE)]
    ELSE IF stat = "no_such_file" THEN [res |-> "Ok", out |-> Some(FALSE)]
    ELSE [res |-> "IO", out |-> None]

\* Ok(sftp.fs().metadata(path).await.is_ok())
Openssh_exists_result(stat) == [res |-> "Ok", out |-> Some(stat \in {"dir", "file"})]

\* one exists(/c1/.../ck) call whose stat had outcome stat
ExistsOf(stat, r) ==
    /\ fsCount < MaxFsOps
    /\ fsCount' = fsCount + 1
    /\ fsOp' = [op |-> "exists", arg |-> stat, res |-> r.res, out |-> r.out, mkdirs |-> {}]
    /\ UNCHANGED <<execVars, extVars, chanLog, permVars, fileMode, nodes, fsChan>>

Russh_exists ==
    /\ backend = "russh"
    /\ \E k \in 1..MaxDepth, fault \in StatFaults :
          LET stat == Sftp_metadata(nodes, k, fault)
          IN  ExistsOf(stat, Sftp_try_exists_result(stat))

Openssh_exists ==
    /\ backend = "openssh"
    /\ \E k \in 1..MaxDepth, fault \in StatFaults :
          LET stat == Sftp_metadata(nodes, k, fault)
          IN  ExistsOf(stat, Openssh_exists_result(stat))

ExistsInit ==
    /\ ExecIdle
    /\ backend \in {"russh", "openssh"}
    /\ PermIdle
    /\ ExtIdle
    /\ fileMode = 0
    /\ nodes \in NodeStates
    /\ fsOp = NoFsOp
    /\ fsCount = 0
    /\ fsChan = <<>>

ExistsNext == Russh_exists \/ Openssh_exists

ExistsSpec == ExistsInit /\ [][ExistsNext]_vars

\* ------------------------------------------------------- the desugarer
\* Strings are sequences of characters; a UUID's text is one element.
ArgChars == {"a", "'", " ", "$"}
\* the characters shell_escape leaves alone, among those used here
Whitelisted == {"a", "p", "w", "k", "v", "/", "-", "=", "_"}
Uuids == {"u1", "u2"}

StringsUpTo(n) == UNION {[1..m -> ArgChars] : m \in 0..n}

\* argument lists of exactly n arguments holding at most budget characters
RECURSIVE ArgListsOf(_, _)
ArgListsOf(n, budget) ==
    IF n = 0 THEN {<<>>}
    ELSE UNION {{<<s>> \o l : l \in ArgListsOf(n - 1, budget - Len(s))} : s \in StringsUpTo(budget)}

ArgLists == UNION {ArgListsOf(n, MaxArgChars) : n \in 0..MaxArgs}

ProcessConfigurations ==
    [working_dir : {None, Some(<<"/", "w">>)},
     envs : {{}, {[key |-> <<"k">>, value |-> <<"v">>]},
             {[key |-> <<"k">>, value |-> <<"v">>], [key |-> <<"w">>, value |-> <<>>]}},
     program : {<<"p">>},
     args : ArgLists]

\* shell_escape::unix::escape: the characters of s, each ' (and !) as '\''
\* the characters of s with no handling of an embedded quote
escape_chars_Mut(s) == s

RECURSIVE escape_chars(_)
escape_chars(s) ==
    IF s = <<>> THEN <<>>
    ELSE (IF s[1] \in {"'", "!"} THEN <<"'", "\\", s[1], "'">> ELSE <<s[1]>>)
            \o escape_chars(Tail(s))

\* shell_escape::unix::escape: a non-empty string of whitelisted characters
\* is returned as it is, any other is wrapped in single quotes
escape(s) ==
    IF s # <<>> /\ \A i \in 1..Len(s) : s[i] \in Whitelisted THEN s
    ELSE <<"'">> \o escape_chars(s) \o <<"'">>

\* envs is a HashMap<String, String>: `for .. in &self.envs` visits the
\* pairs in the order of the map's hasher, any order of the pairs
IterationOrders(envs) ==
    {order \in [1..Cardinality(envs) -> envs] :
        \A i, j \in 1..Cardinality(envs) : i # j => order[i] # order[j]}

\* for (env_key, env_value) in &self.envs: key, '=', value, ' ', with envs
\* given in the order the map iterates in
RECURSIVE push_envs(_)
push_envs(envs) ==
    IF envs = <<>> THEN <<>>
    ELSE envs[1].key \o <<"=">> \o envs[1].value \o <<" ">> \o push_envs(Tail(envs))

\* for arg in &self.args: escape(arg), ' '
RECURSIVE push_args(_)
push_args(args) ==
    IF args = <<>> THEN <<>>
    ELSE escape(args[1]) \o <<" ">> \o push_args(Tail(args))

\* sections.join(" && ")
RECURSIVE join_sections(_)
join_sections(sections) ==
    IF sections = <<>> THEN <<>>
    ELSE IF Len(sections) = 1 THEN sections[1]
    ELSE sections[1] \o <<" ", "&", "&", " ">> \o join_sections(Tail(sections))

\* the exec section without trim_end after the arguments
exec_section_Mut(self) ==
    LET with_program == push_envs(self.envs) \o <<"e", "x", "e", "c", " ">> \o self.program
    IN  IF self.args # <<>>
        THEN with_program \o <<" ">> \o push_args(self.args)
        ELSE with_program

\* steps 3.1 to 3.3 of desugar_to_shell_command
exec_section(self) ==
    LET with_program == push_envs(self.envs) \o <<"e", "x", "e", "c", " ">> \o self.program
    IN  IF self.args # <<>>
        THEN trim_end(with_program \o <<" ">> \o push_args(self.args))
        ELSE with_program

\* LinuxProcessConfiguration::desugar_to_shell_command with Uuid::new_v4() = uuid;
\* self.envs is the map in its iteration order
desugar_to_shell_command(self, uuid) ==
    LET pid_file == <<"/", "t", "m", "p", "/", "p", "i", "d", "-", uuid>>
        sections ==
            (IF self.working_dir.some THEN << <<"c", "d", " ">> \o self.working_dir.v >> ELSE <<>>)
                \o << <<"e", "c", "h", "o", " ", "$", "$", " ", ">", " ">> \o pid_file >>
                \o << exec_section(self) >>
    IN  [command |-> <<"(">> \o join_sections(sections) \o <<")">>, pid_file |-> pid_file]

\* one call of the desugarer on the configuration
Desugar ==
    /\ \E uuid \in Uuids, order \in IterationOrders(pcfg.envs) :
          desugared' = Some(desugar_to_shell_command([pcfg EXCEPT !.envs = order], uuid))
    /\ UNCHANGED <<execVars, chanLog, permVars, portVars, pcfg, snapVars, idVars, mutexVars, fileVars, instVars>>

DesugarInit ==
    /\ ExecIdle
    /\ PermIdle
    /\ PortIdle
    /\ pcfg \in ProcessConfigurations
    /\ desugared = None
    /\ snaps = <<>>
    /\ IdIdle
    /\ MutexIdle
    /\ FileIdle
    /\ InstIdle

DesugarNext == Desugar

DesugarSpec == DesugarInit /\ [][DesugarNext]_vars





\* ------------------------------------------- snapshots of a live handle
\* a get_current_output / get_partial_output call on the returned handle
TakeSnapshot(output) ==
    /\ handle = "live" /\ pc = "handle"
    /\ Len(snaps) < MaxSnaps
    /\ snaps' = Append(snaps, output)
    /\ UNCHANGED <<execVars, chanLog, permVars, portVars, desugarVars, idVars, mutexVars, fileVars, instVars>>

\* RusshLinuxProcess::get_current_output
Russh_get_current_output ==
    /\ backend = "russh"
    /\ TakeSnapshot(fetch_process_output(InternalId(channel_id, instance_id)))

\* OpensshLinuxProcess::get_current_output
Openssh_get_current_output ==
    /\ backend = "openssh"
    /\ TakeSnapshot(get_current_output_internal(synthetic_id))

\* NativeLinuxProcess::get_partial_output: a stream that is not redirected
\* or has no buffer is None, here the empty string
get_partial_output ==
    [stdout |-> IF cfg.redirect_stdout THEN GetOrEmpty(STDOUT_BUFFERS, pid_option.v) ELSE <<>>,
     stderr |-> IF cfg.redirect_stderr THEN GetOrEmpty(STDERR_BUFFERS, pid_option.v) ELSE <<>>,
     stdout_extended |-> EmptyMap]

Native_get_partial_output ==
    /\ backend = "native"
    /\ pid_option.some
    /\ TakeSnapshot(get_partial_output)

SnapNext ==
    \/ RemoteShellRedirect
    \/ \E t \in PidTexts : RemoteShellEcho(t)
    \/ \E b \in Bytes : RemoteWriteStdout(b)
    \/ \E b \in ErrBytes : RemoteWriteStderr(b)
    \/ \E e \in ExtStreams, b \in ExtBytes : RemoteWriteExt(e, b)
    \/ \E code \in ExitCodes : RemoteExit(code)
    \/ RemoteSigpipe
    \/ RemoteClose
    \/ PidDiscoveryLoop
    \/ \E f \in Configs : Russh_begin_execute_internal("begin_execute", f)
    \/ Russh_register_stdout
    \/ Russh_register_stderr
    \/ Russh_return
    \/ Russh_get_current_output
    \/ \E f \in Configs : Openssh_begin_execute(f)
    \/ Openssh_spawn_capture_task_stdout
    \/ Openssh_spawn_capture_task_stderr
    \/ Openssh_return
    \/ Openssh_capture_task_stdout
    \/ Openssh_capture_task_stderr
    \/ Openssh_get_current_output
    \/ \E f \in Configs, p \in OsPids : Native_begin_execute(f, p)
    \/ Native_register_stdout
    \/ Native_register_stderr
    \/ Native_capture_task_stdout
    \/ Native_capture_task_stderr
    \/ Native_get_partial_output

SnapSpec == Init /\ [][SnapNext]_vars

\* --------------------------------------------- proxy-SSH synthetic ids
\* AtomicU32::fetch_add(1): the value after the add, wrapping at 2^32
fetch_add_1(value) ==
    IF value.lo + 1 < U32_LIMB THEN [hi |-> value.hi, lo |-> value.lo + 1]
    ELSE [hi |-> (value.hi + 1) % U32_LIMB, lo |-> 0]

\* a < b on u32 values held in limbs
U32Less(a, b) == a.hi < b.hi \/ (a.hi = b.hi /\ a.lo < b.lo)

\* the call took an id: it is still discovering the PID, returned a handle
\* that is alive or gone, or was cancelled before it returned
HasId(h) == handles[h].state \in {"discovering", "live", "dropped", "cancelled"}

\* number of ids handed out so far
Allocated == Cardinality({h \in 1..MaxHandles : HasId(h)})

\* OpensshLinux::begin_execute up to the spawn of the command
Openssh_begin_execute_spawn(h) ==
    /\ handles[h].state = "idle"
    /\ handles' = [handles EXCEPT ![h].state = "spawned"]
    /\ UNCHANGED <<execVars, chanLog, permVars, portVars, desugarVars, snapVars, idGenerator, mutexVars, fileVars, instVars>>

\* SYNTHETIC_ID_GENERATOR.fetch_add(1, Ordering::Relaxed): the call has the
\* value read and goes on to the capture tasks and the PID discovery loop
Openssh_begin_execute_fetch_add(h) ==
    /\ handles[h].state = "spawned"
    /\ handles' = [handles EXCEPT ![h] = [state |-> "discovering", id |-> idGenerator, ord |-> Allocated]]
    /\ idGenerator' = fetch_add_1(idGenerator)
    /\ UNCHANGED <<execVars, chanLog, permVars, portVars, desugarVars, snapVars, mutexVars, fileVars, instVars>>

\* the PID discovery loop broke: Ok(Box::new(OpensshLinuxProcess { synthetic_id, .. }))
Openssh_begin_execute_return(h) ==
    /\ handles[h].state = "discovering"
    /\ handles' = [handles EXCEPT ![h].state = "live"]
    /\ UNCHANGED <<execVars, chanLog, permVars, portVars, desugarVars, snapVars, idGenerator, mutexVars, fileVars, instVars>>

\* the caller drops the future of a begin_execute that has not returned
\* (the loop has no exit of its own): no handle ever carries the id
Openssh_begin_execute_cancel(h) ==
    /\ handles[h].state = "discovering"
    /\ handles' = [handles EXCEPT ![h].state = "cancelled"]
    /\ UNCHANGED <<execVars, chanLog, permVars, portVars, desugarVars, snapVars, idGenerator, mutexVars, fileVars, instVars>>

\* the handle is consumed by await_exit* or dropped
Openssh_handle_end(h) ==
    /\ handles[h].state = "live"
    /\ handles' = [handles EXCEPT ![h].state = "dropped"]
    /\ UNCHANGED <<execVars, chanLog, permVars, portVars, desugarVars, snapVars, idGenerator, mutexVars, fileVars, instVars>>

\* Either a fresh process (counter 0, no handle), or a process that made
\* 2^32 - 1 launches before: the counter stands at 2^32 - 1 and the handle
\* of the first launch (id 0) may still be alive.
IdInit ==
    /\ ExecIdle
    /\ PermIdle
    /\ PortIdle
    /\ DesugarIdle
    /\ snaps = <<>>
    /\ MutexIdle
    /\ FileIdle
    /\ InstIdle
    /\ \/ IdIdle
       \/ /\ idGenerator = [hi |-> U32_LIMB - 1, lo |-> U32_LIMB - 1]
          /\ \E first \in {"live", "dropped"} :
                handles = [h \in 1..MaxHandles |->
                              IF h = 1 THEN [state |-> first, id |-> [hi |-> 0, lo |-> 0], ord |-> 0]
                              ELSE NoHandle]

IdNext ==
    \E h \in 1..MaxHandles :
        \/ Openssh_begin_execute_spawn(h)
        \/ Openssh_begin_execute_fetch_add(h)
        \/ Openssh_begin_execute_return(h)
        \/ Openssh_begin_execute_cancel(h)
        \/ Openssh_handle_end(h)

IdSpec == IdInit /\ [][IdNext]_vars

\* ------------------------- the filesystem channel of a library-SSH instance
\* fsChan holds the messages on the way to Channel::wait(), each with the
\* caller whose command made the server send it.
mutexFrame ==
    <<execVars, chanLog, permVars, fileMode, nodes, fsOp, fsCount, desugarVars, snapVars, idVars, fileVars, instVars>>

\* instance.fs_channel_mutex.lock().await returning without a free mutex
Russh_fs_lock_Mut(c) ==
    /\ callers[c].pc = "idle"
    /\ fsLock' = c
    /\ callers' = [callers EXCEPT ![c].pc = "exec"]
    /\ UNCHANGED <<mutexFrame, fsChan, fsServer>>

\* instance.fs_channel_mutex.lock().await returns: the mutex was free
Russh_fs_lock(c) ==
    /\ callers[c].pc = "idle"
    /\ fsLock = 0
    /\ fsLock' = c
    /\ callers' = [callers EXCEPT ![c].pc = "exec"]
    /\ UNCHANGED <<mutexFrame, fsChan, fsServer>>

\* chan.exec(true, command): the server starts the command on a channel not
\* used before; on a used channel the request fails or gets no command run.
\* An Err returns at once and drops the guard.
Russh_fs_exec(c, exec_ok) ==
    /\ callers[c].pc = "exec"
    /\ exec_ok \/ fsServer.state # "open"
    /\ IF exec_ok
       THEN /\ callers' = [callers EXCEPT ![c].pc = "loop"]
            /\ fsServer' = IF fsServer.state = "open"
                           THEN [state |-> "running", cmd |-> c, sent |-> 0]
                           ELSE fsServer
            /\ UNCHANGED fsLock
       ELSE /\ callers' = [callers EXCEPT ![c].pc = "done", ![c].res = "IO"]
            /\ fsLock' = IF fsLock = c THEN 0 ELSE fsLock
            /\ UNCHANGED fsServer
    /\ UNCHANGED <<mutexFrame, fsChan>>

\* the server sends a message of the running command
FsServerSend(msg) ==
    /\ fsServer.state = "running"
    /\ fsServer.sent < MaxMsgs
    /\ fsChan' = Append(fsChan, [msg |-> msg, cmd |-> fsServer.cmd])
    /\ fsServer' = [fsServer EXCEPT !.sent = @ + 1]
    /\ UNCHANGED <<mutexFrame, fsLock, callers>>

\* the command has ended and the server closes the channel
FsServerClose ==
    /\ fsServer.state = "running"
    /\ fsServer' = [fsServer EXCEPT !.state = "closed"]
    /\ UNCHANGED <<mutexFrame, fsChan, fsLock, callers>>

\* one iteration of the loop of run_fs_command: chan.wait() returned Some(msg)
Russh_fs_wait_msg(c) ==
    /\ callers[c].pc = "loop"
    /\ fsChan # <<>>
    /\ callers' = [callers EXCEPT
                      ![c].code = IF Head(fsChan).msg.type = "ExitStatus"
                                  THEN Some(Head(fsChan).msg.exit_status) ELSE @,
                      ![c].read = @ \cup {Head(fsChan).cmd}]
    /\ fsChan' = Tail(fsChan)
    /\ UNCHANGED <<mutexFrame, fsLock, fsServer>>

\* chan.wait() returned None (channel closed, nothing left): Ok(code), and
\* the guard is dropped
Russh_fs_wait_none(c) ==
    /\ callers[c].pc = "loop"
    /\ fsChan = <<>>
    /\ fsServer.state = "closed"
    /\ callers' = [callers EXCEPT ![c].pc = "done", ![c].res = "Ok"]
    /\ fsLock' = IF fsLock = c THEN 0 ELSE fsLock
    /\ UNCHANGED <<mutexFrame, fsChan, fsServer>>

MutexInit ==
    /\ ExecIdle
    /\ backend = "russh"
    /\ PermIdle
    /\ PortIdle
    /\ ExtIdle

MutexNext ==
    \/ \E c \in 1..MaxCallers : Russh_fs_lock(c)
    \/ \E c \in 1..MaxCallers, exec_ok \in BOOLEAN : Russh_fs_exec(c, exec_ok)
    \/ \E msg \in ChannelMsgs : FsServerSend(msg)
    \/ FsServerClose
    \/ \E c \in 1..MaxCallers : Russh_fs_wait_msg(c)
    \/ \E c \in 1..MaxCallers : Russh_fs_wait_none(c)

MutexSpec == MutexInit /\ [][MutexNext]_vars

\* ------------------------------------------------------------- open_file
OpenFlagNames == {"read", "write", "append", "truncate", "create"}

\* the values of LinuxOpenOptions, as the set of the fields that are true
LinuxOpenOptionsValues == SUBSET OpenFlagNames

OpenFlag(opts, name) == IF name \in opts THEN {name} ELSE {}

\* conv_path: path.to_str().unwrap() panics on a path that is not UTF-8
conv_path(path) == IF path = "/nonutf8" THEN "panic" ELSE path

\* NativeLinux::open_file: the options handed to tokio's OpenOptions
Native_open_file_options(opts) ==
    OpenFlag(opts, "read") \cup OpenFlag(opts, "write") \cup OpenFlag(opts, "append")
        \cup OpenFlag(opts, "truncate") \cup OpenFlag(opts, "create")

\* RusshLinux::open_file: the OpenFlags handed to open_with_flags
Russh_open_file_flags(opts) ==
    OpenFlag(opts, "read") \cup OpenFlag(opts, "write") \cup OpenFlag(opts, "append")
        \cup OpenFlag(opts, "truncate") \cup OpenFlag(opts, "create")

\* OpensshLinux::open_file: the options handed to the SFTP client's
\* OpenOptions; truncate also sets create
Openssh_open_file_options(opts) ==
    OpenFlag(opts, "read") \cup OpenFlag(opts, "write") \cup OpenFlag(opts, "append")
        \cup OpenFlag(opts, "create")
        \cup (IF "truncate" \in opts THEN {"create", "truncate"} ELSE {})

\* open(2) on the host: a missing file is created under O_CREAT and is
\* an error without it; O_TRUNC empties an existing file
Host_open(kind, flags) ==
    IF kind = "none"
    THEN IF "create" \in flags THEN [res |-> "Ok", out |-> "created"]
         ELSE [res |-> "NotFound", out |-> "none"]
    ELSE IF "truncate" \in flags THEN [res |-> "Ok", out |-> "truncated"]
    ELSE [res |-> "Ok", out |-> "none"]

\* OpenOptions::open of the standard library: the combination is checked
\* before the system call
Tokio_open(kind, flags) ==
    IF flags \cap {"read", "write", "append"} = {} THEN [res |-> "InvalidInput", out |-> "none"]
    ELSE IF "append" \notin flags /\ "write" \notin flags /\ flags \cap {"truncate", "create"} # {}
    THEN [res |-> "InvalidInput", out |-> "none"]
    ELSE IF "append" \in flags /\ "truncate" \in flags THEN [res |-> "InvalidInput", out |-> "none"]
    ELSE Host_open(kind, flags)

\* SFTP open: the server opens with the flags of the request
Sftp_open_with_flags(kind, flags) == Host_open(kind, flags)

\* OpenOptions::open of the proxy-SSH SFTP client: truncation is a kind of
\* creation and is requested only together with create
Openssh_sftp_open(kind, flags) ==
    Host_open(kind, IF "create" \in flags THEN flags ELSE flags \ {"truncate"})

\* one open_file(path, opts) call that handed flags to the underlying open
OpenFileOf(path, opts, flags, r) ==
    /\ fsCount < MaxFsOps
    /\ fsCount' = fsCount + 1
    /\ fileCall' = [op |-> "open_file", path |-> path, arg |-> files[path].kind,
                    opts |-> opts, flags |-> flags, res |-> r.res, out |-> r.out]
    /\ files' = IF r.out = "created"
                THEN [files EXCEPT ![path] = [kind |-> "file", target |-> ""]]
                ELSE files
    /\ UNCHANGED <<execVars, chanLog, permVars, fileMode, nodes, fsOp, fsChan,
                   desugarVars, snapVars, idVars, mutexVars, instVars>>

Native_open_file ==
    /\ backend = "native"
    /\ \E path \in Paths, opts \in LinuxOpenOptionsValues :
          LET flags == Native_open_file_options(opts)
          IN  OpenFileOf(path, opts, flags, Tokio_open(files[path].kind, flags))

Russh_open_file ==
    /\ backend = "russh"
    /\ \E path \in Paths, opts \in LinuxOpenOptionsValues :
          LET flags == Russh_open_file_flags(opts)
          IN  IF conv_path(path) = "panic"
              THEN OpenFileOf(path, opts, flags, [res |-> "panic", out |-> "none"])
              ELSE OpenFileOf(path, opts, flags, Sftp_open_with_flags(files[path].kind, flags))

Openssh_open_file ==
    /\ backend = "openssh"
    /\ \E path \in Paths, opts \in LinuxOpenOptionsValues :
          LET flags == Openssh_open_file_options(opts)
          IN  OpenFileOf(path, opts, flags, Openssh_sftp_open(files[path].kind, flags))

\* each path is missing or a regular file
OpenInit ==
    /\ ExecIdle
    /\ backend \in {"native", "russh", "openssh"}
    /\ PermIdle
    /\ PortIdle
    /\ DesugarIdle
    /\ snaps = <<>>
    /\ IdIdle
    /\ MutexIdle
    /\ InstIdle
    /\ files \in [Paths -> {NoNode, [kind |-> "file", target |-> ""]}]
    /\ fileCall = NoFileCall

OpenNext == Native_open_file \/ Russh_open_file \/ Openssh_open_file

OpenSpec == OpenInit /\ [][OpenNext]_vars

\* ----------------------------------------------------------- symbolic links
\* symlink(2): linkpath becomes a link whose text is target; it fails when
\* something exists at linkpath
Host_symlink(fs, target, linkpath) ==
    IF fs[linkpath].kind # "none" THEN [res |-> "AlreadyExists", fs |-> fs]
    ELSE [res |-> "Ok", fs |-> [fs EXCEPT ![linkpath] = [kind |-> "symlink", target |-> target]]]

\* readlink(2): the text of the link
Host_readlink(fs, path) ==
    IF fs[path].kind = "symlink" THEN [res |-> "Ok", out |-> fs[path].target]
    ELSE IF fs[path].kind = "none" THEN [res |-> "NotFound", out |-> ""]
    ELSE [res |-> "InvalidInput", out |-> ""]

\* SftpSession::symlink(path, target) against the server of the test suite,
\* which reads the first string of the request as the text of the link and
\* the second as the place of the link
Sftp_symlink(fs, path, target) == Host_symlink(fs, path, target)

\* RusshLinux::create_symlink with the two paths handed over in the other order
Russh_create_symlink_result_Mut(fs, source_path, destination_path) ==
    IF conv_path(source_path) = "panic" \/ conv_path(destination_path) = "panic"
    THEN [res |-> "panic", fs |-> fs]
    ELSE Sftp_symlink(fs, conv_path(destination_path), conv_path(source_path))

\* RusshLinux::create_symlink
Russh_create_symlink_result(fs, source_path, destination_path) ==
    IF conv_path(source_path) = "panic" \/ conv_path(destination_path) = "panic"
    THEN [res |-> "panic", fs |-> fs]
    ELSE Sftp_symlink(fs, conv_path(source_path), conv_path(destination_path))

\* OpensshLinux::create_symlink: Fs::symlink(target, linkpath)
Openssh_create_symlink_result(fs, source_path, destination_path) ==
    Host_symlink(fs, source_path, destination_path)

\* NativeLinux::create_symlink: tokio::fs::symlink(original, link)
Native_create_symlink_result(fs, source_path, destination_path) ==
    Host_symlink(fs, source_path, destination_path)

create_symlink_result(b, fs, source_path, destination_path) ==
    CASE b = "russh" -> Russh_create_symlink_result(fs, source_path, destination_path)
      [] b = "openssh" -> Openssh_create_symlink_result(fs, source_path, destination_path)
      [] OTHER -> Native_create_symlink_result(fs, source_path, destination_path)

\* RusshLinux::read_link: the String of the answer turned into an OsString
Russh_read_link_result(fs, link_path) ==
    IF conv_path(link_path) = "panic" THEN [res |-> "panic", out |-> ""]
    ELSE Host_readlink(fs, conv_path(link_path))

\* read_link of the three backends
read_link_result(b, fs, link_path) ==
    IF b = "russh" THEN Russh_read_link_result(fs, link_path)
    ELSE Host_readlink(fs, link_path)

\* From<FileType> for LinuxFileType of the native and the proxy-SSH
\* backends: is_file, then is_dir, then is_symlink, else Other
FileTypeByPredicates(kind) ==
    IF kind = "file" THEN "File"
    ELSE IF kind = "dir" THEN "Dir"
    ELSE IF kind = "symlink" THEN "Symlink"
    ELSE "Other"

\* From<FileType> for LinuxFileType of the library-SSH backend
Russh_file_type(kind) ==
    CASE kind = "dir" -> "Dir"
      [] kind = "file" -> "File"
      [] kind = "symlink" -> "Symlink"
      [] OTHER -> "Other"

\* get_symlink_metadata(path).file_type: the lstat of the path, converted
get_symlink_metadata_result(b, fs, path) ==
    IF b = "russh" /\ conv_path(path) = "panic" THEN [res |-> "panic", out |-> ""]
    ELSE IF fs[path].kind = "none" THEN [res |-> "NotFound", out |-> ""]
    ELSE [res |-> "Ok",
          out |-> IF b = "russh" THEN Russh_file_type(fs[path].kind)
                  ELSE FileTypeByPredicates(fs[path].kind)]

\* a link call: path is the path the call is about (the destination of
\* create_symlink), arg the source of create_symlink
LinkCallOf(op, path, arg, r, fs) ==
    /\ fsCount < MaxFsOps
    /\ fsCount' = fsCount + 1
    /\ fileCall' = [op |-> op, path |-> path, arg |-> arg, opts |-> {}, flags |-> {},
                    res |-> r.res, out |-> r.out]
    /\ files' = fs
    /\ UNCHANGED <<execVars, chanLog, permVars, fileMode, nodes, fsOp, fsChan,
                   desugarVars, snapVars, idVars, mutexVars, instVars>>

create_symlink ==
    /\ backend \in Backends
    /\ \E source_path \in Paths, destination_path \in Paths :
          LET r == create_symlink_result(backend, files, source_path, destination_path)
          IN  LinkCallOf("create_symlink", destination_path, source_path,
                         [res |-> r.res, out |-> ""], r.fs)

read_link ==
    /\ backend \in Backends
    /\ \E link_path \in Paths :
          LinkCallOf("read_link", link_path, "", read_link_result(backend, files, link_path), files)

get_symlink_metadata ==
    /\ backend \in Backends
    /\ \E path \in Paths :
          LinkCallOf("get_symlink_metadata", path, "",
                     get_symlink_metadata_result(backend, files, path), files)

LinkInit == OpenInit

LinkNext == create_symlink \/ read_link \/ get_symlink_metadata

LinkSpec == LinkInit /\ [][LinkNext]_vars





\* ------------------------------------------- a launch that never hands off
\* "cd WORKING_DIR" fails: the shell writes its diagnostic, one line, to
\* stderr (extended data 1 on library-SSH, the stderr pipe on proxy-SSH)
CdDiagnostic == <<98, NL>>
\* the status a shell ends with after the failed cd: 1 (bash), 2 (dash)
CdFailStatuses == {1, 2}

RemoteShellCdFails ==
    /\ remote = "shell"
    /\ remote' = "cdfailed"
    /\ progErr' = progErr \o CdDiagnostic
    /\ IF backend = "russh"
       THEN /\ STDERR_BUFFERS' = WrappingHandler_extended_data_stderr(STDERR_BUFFERS, channel_id, STDERR_EXT, CdDiagnostic)
            /\ STDEXT_BUFFERS' = WrappingHandler_extended_data_stdext(STDEXT_BUFFERS, channel_id, STDERR_EXT, CdDiagnostic)
            /\ chanMsgs' = Enqueue([type |-> "Data"])
            /\ UNCHANGED pipeErr
       ELSE /\ pipeErr' = IF cfg.redirect_stderr THEN pipeErr \o CdDiagnostic ELSE pipeErr
            /\ UNCHANGED <<STDERR_BUFFERS, STDEXT_BUFFERS, chanMsgs>>
    /\ UNCHANGED <<ctlVars, hndVars, opVars, fsVars>>
    /\ UNCHANGED <<SYNTHETIC_ID_GENERATOR, STDOUT_BUFFERS, capture>>
    /\ UNCHANGED <<progOut, progExt, exitCode, pipeOut, accOut, accErr>>
    /\ inner' = IF backend = "russh"
                THEN [inner EXCEPT !.extended_data[STDERR_EXT] = @ \o CdDiagnostic]
                ELSE inner
    /\ UNCHANGED auxButInner

\* the && chain of the desugared command stops: the subshell ends with a
\* failure status and the handoff file is never written
RemoteShellCdExit(code) ==
    /\ remote = "cdfailed"
    /\ remote' = "exited"
    /\ exitCode' = Some(code)
    /\ chanMsgs' = IF backend = "russh"
                   THEN Enqueue([type |-> "ExitStatus", exit_status |-> code])
                   ELSE chanMsgs
    /\ UNCHANGED <<ctlVars, hndVars, opVars, fabVars, fsVars>>
    /\ UNCHANGED <<progOut, progErr, progExt, pipeOut, pipeErr, accOut, accErr>>
    /\ UNCHANGED auxVars

\* the steps of a remote that answers: the subshell goes on, the server
\* closes the channel of a command that has ended
RemoteStep ==
    \/ RemoteShellRedirect
    \/ RemoteShellEcho(<<"4", "2", "\n">>)
    \/ \E code \in CdFailStatuses : RemoteShellCdExit(code)
    \/ (remote = "exited" /\ RemoteClose)

\* begin_execute on the SSH backends against a remote whose filesystem stays
\* reachable and whose shell writes its PID whenever it gets to the echo
HandoffNext ==
    \/ RemoteShellRedirect
    \/ RemoteShellEcho(<<"4", "2", "\n">>)
    \/ RemoteShellCdFails
    \/ \E code \in CdFailStatuses : RemoteShellCdExit(code)
    \/ \E code \in ExitCodes : RemoteExit(code)
    \/ RemoteClose
    \/ PidDiscoveryLoop
    \/ \E f \in Configs : Russh_begin_execute_internal("begin_execute", f)
    \/ Russh_register_stdout
    \/ Russh_register_stderr
    \/ Russh_return
    \/ Russh_drop_handle
    \/ \E f \in Configs : Openssh_begin_execute(f)
    \/ Openssh_spawn_capture_task_stdout
    \/ Openssh_spawn_capture_task_stderr
    \/ Openssh_return
    \/ Openssh_drop_handle

HandoffSpec ==
    PidInit /\ [][HandoffNext]_vars
        /\ WF_vars(PidDiscoveryLoop) /\ WF_vars(ProgramStep) /\ WF_vars(RemoteStep)

\* ------------------------------------- the mutexes of one SSH backend instance
\* A call is the sequence of its suspension points: taking a mutex
\* (lock().await), releasing it (the guard is dropped, at the end of the
\* function unless dropped before), any other await, and the end of the PID
\* discovery loop, which jumps n instructions back until the PID is parsed.
Lock(m) == [i |-> "lock", m |-> m, n |-> 0]
Unlock(m) == [i |-> "unlock", m |-> m, n |-> 0]
Await == [i |-> "await", m |-> <<"none", 0>>, n |-> 0]
Loop(n) == [i |-> "loop", m |-> <<"none", 0>>, n |-> n]

\* begin_execute_internal: the guard of handle_mutex lives until the
\* function returns; channel_open_session, the exec request, then the loop
\* around open_file / read_to_string
Russh_begin_execute_internal_program ==
    <<Lock(<<"handle_mutex", 0>>), Await, Await, Await, Loop(1), Unlock(<<"handle_mutex", 0>>)>>

\* RusshLinux::execute with the channel of the new process locked inside
\* begin_execute_internal
Russh_execute_program_Mut(t) ==
    <<Lock(<<"handle_mutex", 0>>), Await, Await, Await, Loop(1),
      Lock(<<"channel_mutex", t>>), Unlock(<<"handle_mutex", 0>>),
      Await, Unlock(<<"channel_mutex", t>>)>>

\* RusshLinux::execute (send_signal calls it): begin_execute_internal, then
\* the channel of the new process is locked for await_process_exit
Russh_execute_program(t) ==
    Russh_begin_execute_internal_program
        \o <<Lock(<<"channel_mutex", t>>), Await, Unlock(<<"channel_mutex", t>>)>>

\* run_fs_command of the library-SSH backend: exec, the wait loop
Russh_run_fs_command_program ==
    <<Lock(<<"fs_channel_mutex", 0>>), Await, Await, Unlock(<<"fs_channel_mutex", 0>>)>>

\* RusshLinux::exists: sftp_session.try_exists
Russh_exists_program == <<Await>>

\* OpensshLinux::begin_execute: spawn, then the loop around open_file (which
\* locks sftp_mutex for the open) and read_to_string
Openssh_begin_execute_program ==
    <<Await, Lock(<<"sftp_mutex", 0>>), Await, Unlock(<<"sftp_mutex", 0>>), Await, Loop(4)>>

\* OpensshLinux::execute: owning_command.output(); send_signal: status()
Openssh_execute_program == <<Await>>

\* OpensshLinux::exists (create_file, open_file alike): one SFTP request
\* under sftp_mutex
Openssh_exists_program == <<Lock(<<"sftp_mutex", 0>>), Await, Unlock(<<"sftp_mutex", 0>>)>>

\* OpensshLinux::copy_file: sftp_mutex held from the first line to the
\* return, over open(read), open(write, truncate), copy_all_to and two closes
Openssh_copy_file_program ==
    <<Lock(<<"sftp_mutex", 0>>), Await, Await, Await, Await, Await, Unlock(<<"sftp_mutex", 0>>)>>

\* run_fs_command of the proxy-SSH backend (remove_dir_recursively,
\* create_dir_recursively): child.status()
Openssh_run_fs_command_program == <<Await>>

TaskOps ==
    {"begin_execute", "execute", "send_signal", "copy_file", "remove_dir_recursively", "exists"}

Program(b, op, t) ==
    IF b = "russh"
    THEN CASE op = "begin_execute" -> Russh_begin_execute_internal_program
           [] op \in {"execute", "send_signal"} -> Russh_execute_program(t)
           [] op \in {"copy_file", "remove_dir_recursively"} -> Russh_run_fs_command_program
           [] OTHER -> Russh_exists_program
    ELSE CASE op = "begin_execute" -> Openssh_begin_execute_program
           [] op \in {"execute", "send_signal"} -> Openssh_execute_program
           [] op = "copy_file" -> Openssh_copy_file_program
           [] op = "remove_dir_recursively" -> Openssh_run_fs_command_program
           [] OTHER -> Openssh_exists_program

Running(t) == tasks[t].op \in TaskOps
ProgramOf(t) == Program(backend, tasks[t].op, t)
AtEnd(t) == tasks[t].ip > Len(ProgramOf(t))
\* the instruction the call is at
Instr(t) == ProgramOf(t)[tasks[t].ip]

lockFrame ==
    <<execVars, chanLog, permVars, portVars, desugarVars, snapVars, idVars, mutexVars,
      fileVars, inner, termVars, dirVars>>

\* a call is made on the instance
Task_call(t, op) ==
    /\ tasks[t].op = "none"
    /\ tasks' = [tasks EXCEPT ![t].op = op]
    /\ UNCHANGED <<lockFrame, mtx>>

\* lock().await returns: the mutex was free
Task_lock(t) ==
    /\ Running(t) /\ ~AtEnd(t)
    /\ Instr(t).i = "lock"
    /\ mtx[Instr(t).m] = 0
    /\ mtx' = [mtx EXCEPT ![Instr(t).m] = t]
    /\ tasks' = [tasks EXCEPT ![t].ip = @ + 1, ![t].held = @ \cup {Instr(t).m}]
    /\ UNCHANGED lockFrame

\* the guard is dropped
Task_unlock(t) ==
    /\ Running(t) /\ ~AtEnd(t)
    /\ Instr(t).i = "unlock"
    /\ mtx' = [mtx EXCEPT ![Instr(t).m] = 0]
    /\ tasks' = [tasks EXCEPT ![t].ip = @ + 1, ![t].held = @ \ {Instr(t).m}]
    /\ UNCHANGED lockFrame

\* an await that is no lock completes
Task_await(t) ==
    /\ Running(t) /\ ~AtEnd(t)
    /\ Instr(t).i = "await"
    /\ tasks' = [tasks EXCEPT ![t].ip = @ + 1]
    /\ UNCHANGED <<lockFrame, mtx>>

\* the remote subshell of the call's command writes the handoff file
Task_handoff(t) ==
    /\ Running(t) /\ ~AtEnd(t)
    /\ \E j \in tasks[t].ip..Len(ProgramOf(t)) : ProgramOf(t)[j].i = "loop"
    /\ ~tasks[t].handoff
    /\ tasks' = [tasks EXCEPT ![t].handoff = TRUE]
    /\ UNCHANGED <<lockFrame, mtx>>

\* the end of one iteration of the PID discovery loop
Task_loop(t) ==
    /\ Running(t) /\ ~AtEnd(t)
    /\ Instr(t).i = "loop"
    /\ tasks' = [tasks EXCEPT ![t].ip = IF tasks[t].handoff THEN @ + 1 ELSE @ - Instr(t).n]
    /\ UNCHANGED <<lockFrame, mtx>>

\* the call returns
Task_return(t) ==
    /\ Running(t) /\ AtEnd(t)
    /\ tasks' = [tasks EXCEPT ![t].op = "done"]
    /\ UNCHANGED <<lockFrame, mtx>>

LockInit ==
    /\ ExecIdle
    /\ backend \in {"russh", "openssh"}
    /\ PermIdle
    /\ PortIdle
    /\ ExtIdle

LockNext ==
    \/ \E t \in 1..MaxTasks, op \in TaskOps : Task_call(t, op)
    \/ \E t \in 1..MaxTasks : Task_lock(t)
    \/ \E t \in 1..MaxTasks : Task_unlock(t)
    \/ \E t \in 1..MaxTasks : Task_await(t)
    \/ \E t \in 1..MaxTasks : Task_handoff(t)
    \/ \E t \in 1..MaxTasks : Task_loop(t)
    \/ \E t \in 1..MaxTasks : Task_return(t)

LockSpec == LockInit /\ [][LockNext]_vars








\* ------------------------------------ a launch that meets an earlier key
\* The fabric as an earlier, ended launch left it under the key the next
\* launch gets. Native: nothing ever removes an entry of STDOUT_BUFFERS or
\* STDERR_BUFFERS, and the OS hands the PID out again. Library-SSH: Drop
\* removes the stdout and stderr entries and leaves those of STDEXT_BUFFERS.
EarlierBytes == {120}
EarlierOutput == <<120, NL>>

StaleInit ==
    /\ ExecStart
    /\ \/ /\ backend = "native"
          /\ \E p \in OsPids :
                /\ STDOUT_BUFFERS = Insert(EmptyMap, p, EarlierOutput)
                /\ STDERR_BUFFERS \in {EmptyMap, Insert(EmptyMap, p, <<>>)}
          /\ STDEXT_BUFFERS = EmptyMap
       \/ /\ backend = "russh"
          /\ STDOUT_BUFFERS = EmptyMap
          /\ STDERR_BUFFERS = EmptyMap
          /\ \E e \in ExtStreams :
                STDEXT_BUFFERS = Insert(EmptyMap, StdextKey(1, instance_id, e), EarlierOutput)
    /\ chanLog = <<>>
    /\ PermIdle
    /\ PortIdle
    /\ ExtIdle

StaleNext ==
    \/ RemoteShellRedirect
    \/ \E t \in PidTexts : RemoteShellEcho(t)
    \/ \E b \in Bytes : RemoteWriteStdout(b)
    \/ \E b \in ErrBytes : RemoteWriteStderr(b)
    \/ \E e \in ExtStreams, b \in ExtBytes : RemoteWriteExt(e, b)
    \/ \E code \in ExitCodes : RemoteExit(code)
    \/ RemoteSigpipe
    \/ RemoteClose
    \/ PidDiscoveryLoop
    \/ \E f \in Configs : Russh_begin_execute_internal("begin_execute", f)
    \/ Russh_register_stdout
    \/ Russh_register_stderr
    \/ Russh_return
    \/ Russh_get_current_output
    \/ \E f \in Configs, p \in OsPids : Native_begin_execute(f, p)
    \/ Native_register_stdout
    \/ Native_register_stderr
    \/ Native_capture_task_stdout
    \/ Native_capture_task_stderr
    \/ Native_get_partial_output

StaleSpec == StaleInit /\ [][StaleNext]_vars


\* --------------------------- event receivers of a library-SSH terminal
\* dhs is the DHS entry of the terminal's channel; call r registers the
\* receiver r. Each guard of the RwLock is taken, used and dropped without
\* an await in between, so each locked section is one step; the read guard
\* is dropped before the write guard is requested.
termFrame ==
    <<execVars, chanLog, permVars, portVars, desugarVars, snapVars, idVars, mutexVars,
      fileVars, inner, lockVars, dirVars>>

\* register_event_receiver: DHS.read().await, get, drop(read_ref)
Term_register_check(r) ==
    /\ regCalls[r].pc = "idle"
    /\ regCalls' = [regCalls EXCEPT ![r] =
                       IF dhs # 0
                       THEN [op |-> "register", pc |-> "done", seen |-> dhs, old |-> 0,
                             res |-> "EventReceiverAlreadyExists"]
                       ELSE [op |-> "register", pc |-> "write", seen |-> 0, old |-> 0,
                             res |-> "none"]]
    /\ UNCHANGED <<termFrame, dhs>>

\* register_event_receiver: DHS.write().await, insert, drop(write_ref), Ok(())
Term_register_insert(r) ==
    /\ regCalls[r].op = "register" /\ regCalls[r].pc = "write"
    /\ dhs' = r
    /\ regCalls' = [regCalls EXCEPT ![r].pc = "done", ![r].old = dhs, ![r].res = "Ok"]
    /\ UNCHANGED termFrame

\* unregister_event_receiver: DHS.read().await, get, drop(read_ref)
Term_unregister_check(r) ==
    /\ regCalls[r].pc = "idle"
    /\ regCalls' = [regCalls EXCEPT ![r] =
                       IF dhs = 0
                       THEN [op |-> "unregister", pc |-> "done", seen |-> 0, old |-> 0,
                             res |-> "EventReceiverMissing"]
                       ELSE [op |-> "unregister", pc |-> "write", seen |-> dhs, old |-> 0,
                             res |-> "none"]]
    /\ UNCHANGED <<termFrame, dhs>>

\* unregister_event_receiver: DHS.write().await, remove, drop(write_ref), Ok(())
Term_unregister_remove(r) ==
    /\ regCalls[r].op = "unregister" /\ regCalls[r].pc = "write"
    /\ dhs' = 0
    /\ regCalls' = [regCalls EXCEPT ![r].pc = "done", ![r].old = dhs, ![r].res = "Ok"]
    /\ UNCHANGED termFrame

\* quit: channel_mutex.lock().await and channel.close().await; an Err
\* returns before the DHS is touched
Term_quit_close(r, close_ok) ==
    /\ regCalls[r].pc = "idle"
    /\ regCalls' = [regCalls EXCEPT ![r] =
                       IF close_ok
                       THEN [op |-> "quit", pc |-> "write", seen |-> 0, old |-> 0, res |-> "none"]
                       ELSE [op |-> "quit", pc |-> "done", seen |-> 0, old |-> 0, res |-> "Other"]]
    /\ UNCHANGED <<termFrame, dhs>>

\* quit: DHS.write().await.remove(&self.channel_id), whatever is registered; Ok(())
Term_quit_remove(r) ==
    /\ regCalls[r].op = "quit" /\ regCalls[r].pc = "write"
    /\ dhs' = 0
    /\ regCalls' = [regCalls EXCEPT ![r].pc = "done", ![r].old = dhs, ![r].res = "Ok"]
    /\ UNCHANGED termFrame

\* the caller has its Result and may call again
Term_return(r) ==
    /\ regCalls[r].pc = "done"
    /\ regCalls' = [regCalls EXCEPT ![r] = NoRegCall]
    /\ UNCHANGED <<termFrame, dhs>>

TermInit ==
    /\ ExecIdle
    /\ backend = "russh"
    /\ PermIdle
    /\ PortIdle
    /\ ExtIdle

TermNext ==
    \E r \in 1..MaxRegs :
        \/ Term_register_check(r)
        \/ Term_register_insert(r)
        \/ Term_unregister_check(r)
        \/ Term_unregister_remove(r)
        \/ \E close_ok \in BOOLEAN : Term_quit_close(r, close_ok)
        \/ Term_quit_remove(r)
        \/ Term_return(r)

TermSpec == TermInit /\ [][TermNext]_vars

\* =================================================================== claims

\* what the handle / call reports for the key of the launch
HasStdoutEntry == Key \in DOMAIN STDOUT_BUFFERS
HasStderrEntry == Key \in DOMAIN STDERR_BUFFERS

\* C1: for every backend and every configuration with redirect_stdout, the
\* stdout returned by execute is exactly the byte sequence the program wrote
\* to stdout, in order, whatever the interleaving of data deliveries with
\* the steps of execute.
C1_ExecuteReturnsAllStdout ==
    (call = "execute" /\ pc = "done" /\ cfg.redirect_stdout)
        => result.stdout = progOut


\* a byte string cut after every newline (the last piece may lack one)
RECURSIVE SplitLines(_)
SplitLines(s) ==
    IF s = <<>> THEN <<>>
    ELSE LET i == FindNL(s, 1)
         IN  IF i = 0 THEN <<s>>
             ELSE <<SubSeq(s, 1, i)>> \o SplitLines(SubSeq(s, i + 1, Len(s)))

CountIn(seq, x) == Cardinality({i \in 1..Len(seq) : seq[i] = x})

\* the same bytes up to the order of the lines
SameUpToLineOrder(a, b) ==
    LET la == SplitLines(a)
        lb == SplitLines(b)
    IN  /\ Len(la) = Len(lb)
        /\ \A i \in 1..Len(la) : CountIn(la, la[i]) = CountIn(lb, la[i])

\* C2: begin_execute followed by await_exit_with_output returns the stdout and
\* stderr bytes that execute returns for the same program output (up to the
\* order of buffered lines); on the native and the proxy-SSH backend execute
\* returns every byte of a redirected stream.
C2_BeginAwaitSameAsExecute ==
    (/\ backend \in {"native", "openssh"}
     /\ call = "begin_execute" /\ pc = "done" /\ result.kind = "output")
        => /\ SameUpToLineOrder(result.stdout, IF cfg.redirect_stdout THEN progOut ELSE <<>>)
           /\ SameUpToLineOrder(result.stderr, IF cfg.redirect_stderr THEN progErr ELSE <<>>)

\* C3: while the filesystem port cannot reach the remote filesystem, the PID
\* discovery loop does not go on polling: begin_execute ends (with an error)
\* unless the filesystem comes back.
C3_FsFailureEndsPolling ==
    (InPidLoop /\ ~fsUp) ~> (fsUp \/ ~InPidLoop)

PidFileHoldsPid == pidFile.exists /\ ParsePidFile(pidFile.content).some

\* C4: once the handoff file holds a decimal PID line the discovery loop
\* terminates; the handle's id() is that PID and never changes; contents that
\* are empty or do not parse as u32 after trimming trailing whitespace never
\* end the loop.
C4_PidDiscovery ==
    /\ (InPidLoop /\ PidFileHoldsPid) ~> ~InPidLoop
    /\ []((handle # "none" /\ backend # "native")
            => (PidFileHoldsPid /\ pid_option = ParsePidFile(pidFile.content)))
    /\ [][pid_option.some => pid_option' = pid_option]_vars
    /\ [][(InPidLoop /\ ~InPidLoop')
            => (pidFile.content # <<>> /\ ParsePidFile(pidFile.content).some)]_vars

\* C5: after a handle of the native or the proxy-SSH backend is dropped, the
\* fabric eventually holds neither a stdout nor a stderr entry under its key.
C5_DropRemovesEntries ==
    (backend \in {"native", "openssh"} /\ handle = "dropped")
        ~> (~HasStdoutEntry /\ ~HasStderrEntry)

\* extended-data buffers of the launch's channel
StdextEntries ==
    {k \in DOMAIN STDEXT_BUFFERS : k.channel_id = channel_id /\ k.instance_id = instance_id}

\* C6: on library-SSH every buffer of the fabric (stdout, stderr, extended
\* data) carries the ids of a process handle that has not been destroyed;
\* once the handle is destroyed no buffer with its ids remains.
C6_BuffersOwnedByLiveHandle ==
    backend = "russh" =>
        /\ \A k \in DOMAIN STDOUT_BUFFERS \cup DOMAIN STDERR_BUFFERS :
              handle # "dropped" /\ k = Key
        /\ \A k \in DOMAIN STDEXT_BUFFERS :
              handle # "dropped" /\ k \in StdextEntries

NoFabricEntry == ~HasStdoutEntry /\ ~HasStderrEntry /\ StdextEntries = {}

\* C7: once the handle is gone and the fabric holds no buffer under its key,
\* no later append of any stream kind creates an entry for that key.
C7_AppendAfterRemoveDropped ==
    [][(handle = "dropped" /\ NoFabricEntry) => NoFabricEntry']_vars

\* C8: close_stdin succeeds at most once per handle and never on a handle
\* started without redirect_stdin; when it fails it fails with StdinNotPiped.
C8_CloseStdinOnce ==
    /\ closeOk <= 1
    /\ ~cfg.redirect_stdin => closeOk = 0
    /\ (lastOp.op = "close_stdin" /\ lastOp.res # "Ok") => lastOp.res = "StdinNotPiped"

\* C9: on a handle started without redirect_stdin every write_to_stdin fails
\* with StdinNotPiped and the process receives no byte.
C9_WriteWithoutPipeFails ==
    ~cfg.redirect_stdin =>
        /\ stdinRecv = 0
        /\ lastOp.op = "write_to_stdin" => lastOp.res = "StdinNotPiped"

C9_Witness ==
    /\ backend = "russh" /\ handle = "live" /\ ~cfg.redirect_stdin
    /\ remote = "exited"
    /\ lastOp = [op |-> "write_to_stdin", res |-> "StdinNotPiped"]

\* C10: on library-SSH a pending await_exit / await_exit_with_output that has
\* received an exit-status message and has pumped every message delivered so
\* far can complete, whether or not the channel has been closed.
C10_ExitStatusEndsAwait ==
    (backend = "russh" /\ pc = "await" /\ status_code.some /\ chanMsgs = <<>>)
        => ENABLED Russh_await_process_exit_end

\* the exit status carried by the last exit-status message of a sequence
RECURSIVE LastExitStatus(_)
LastExitStatus(msgs) ==
    IF msgs = <<>> THEN None
    ELSE IF msgs[Len(msgs)].type = "ExitStatus" THEN Some(msgs[Len(msgs)].exit_status)
    ELSE LastExitStatus(SubSeq(msgs, 1, Len(msgs) - 1))

\* C11: for every finite sequence of channel messages followed by the close
\* of the channel, await_exit returns the value of the last exit-status
\* message, absent when there is none; other messages do not matter.
C11_AwaitExitReturnsLastStatus ==
    (pc = "done" /\ awaiting = "await_exit")
        => result = [kind |-> "code", status_code |-> LastExitStatus(chanLog)]

C11_Witness ==
    /\ pc = "done" /\ awaiting = "await_exit"
    /\ chanLog = <<[type |-> "ExitStatus", exit_status |-> 0], [type |-> "Data"],
                   [type |-> "ExitStatus", exit_status |-> 1]>>
    /\ result.status_code = Some(1)

\* C12: a kill request on a live handle of the native, the library-SSH or
\* the proxy-SSH backend does not fail with KillRequestUnsupported.
C12_KillRequestSupported ==
    lastOp.op = "send_kill_request" => lastOp.res # "KillRequestUnsupported"

\* a kill request on the handle, whichever the backend
KillRequest == Russh_send_kill_request \/ Openssh_send_kill_request \/ Native_begin_kill

\* the exit of the process has been collected by an await_exit* call
ProcessExited == result # NoResult

\* C13: a kill request can be issued while the process is Running and while
\* an await_exit* call on it is pending (AwaitingExit); a kill request for a
\* process that is already Exited fails and changes nothing.
C13_KillLegalWhileAwaiting ==
    /\ []((call = "begin_execute" /\ handle = "live" /\ pc \in {"handle", "await"}
            /\ opCount < MaxOps) => ENABLED KillRequest)
    /\ [][(KillRequest /\ ProcessExited)
            => (lastOp'.res # "Ok"
                /\ UNCHANGED <<ctlVars, hndVars, fabVars, fsVars, remVars, ioVars,
                               closeOk, stdinRecv>>)]_vars

\* the future of a pending await_exit* call is dropped
CancelAwait == Russh_cancel_await \/ Openssh_cancel_await \/ Native_cancel_await

\* C14: cancelling a pending await_exit / await_exit_with_output leaves the
\* process as it was before the await began: the handle can be awaited
\* again, the exit status received so far is kept and no buffer is removed.
C14_AwaitCancelSafe ==
    [][CancelAwait => (/\ handle' = "live" /\ pc' = "handle"
                       /\ status_code' = status_code
                       /\ UNCHANGED <<STDOUT_BUFFERS, STDERR_BUFFERS, STDEXT_BUFFERS>>)]_vars

\* C15: for each of the 4096 values made of the twelve defined bits, the
\* conversion to a backend permission representation and back yields the
\* original value, via the raw mode bits and via the SFTP permission record.
C15_PermissionsRoundTrip ==
    permOp \in {"bits", "sftp"} => permOut = Some(permIn)

\* C17: a permission value handed to a caller, built from an OS permissions
\* object or carried in the metadata of a backend, holds only the twelve
\* defined bits; construction from an OS permissions object with any other
\* bit fails.
C17_OnlyDefinedBits ==
    permOp \in {"try_from", "file_attributes", "meta_data"}
        => /\ permOut.some => permOut.v \in LinuxPermissionsValues
           /\ (permOp = "try_from" /\ permIn \notin LinuxPermissionsValues) => ~permOut.some

\* C16: on every backend, get_metadata right after a successful
\* set_permissions(p, P) reports, among the twelve defined bits, exactly P.
GetMetadata == Russh_get_metadata \/ Openssh_get_metadata \/ Native_get_metadata

C16_SetPermissionsExact ==
    [][(GetMetadata /\ fsOp.op = "set_permissions" /\ fsOp.res = "Ok")
          => (fsOp'.out.some /\ fsOp'.out.v % (AllBits + 1) = fsOp.arg)]_vars

\* C18: on every backend, whenever create_dir_recursively(p) returned
\* success, p and each of its ancestors exist as directories afterwards.
C18_SuccessMeansDirsExist ==
    (fsOp.op = "create_dir_recursively" /\ fsOp.res = "Ok")
        => \A d \in 1..fsOp.arg : nodes[d] = "dir"

\* C19: create_dir_recursively(p) has mkdir -p semantics on every backend:
\* when every existing component of p is a directory the call succeeds,
\* asks for a mkdir only of missing components and leaves all of p made of
\* directories, so a second call with the same p succeeds as well.
CreateDirRecursively ==
    \/ Openssh_create_dir_recursively
    \/ Native_create_dir_recursively

C19_MkdirPSemantics ==
    /\ [][(CreateDirRecursively /\ \A d \in 1..fsOp'.arg : nodes[d] # "file")
            => /\ fsOp'.res = "Ok"
               /\ fsOp'.mkdirs \subseteq {d \in 1..fsOp'.arg : nodes[d] = "none"}
               /\ \A d \in 1..fsOp'.arg : nodes'[d] = "dir"]_vars
    /\ [][\A c \in 1..MaxDirCalls :
            (/\ Russh_create_dir_return(c)
             /\ ~dirCalls[c].sftp_failed
             /\ \A d \in 1..dirCalls[c].k : dirCalls[c].start[d] # "file")
                => /\ fsOp'.res = "Ok"
                   /\ fsOp'.mkdirs \subseteq {d \in 1..fsOp'.arg : dirCalls[c].start[d] = "none"}
                   /\ \A d \in 1..fsOp'.arg : nodes'[d] = "dir"]_vars

\* C20: on library-SSH, copy_file and remove_dir_recursively return success
\* only when the command exited with status 0; a non-zero exit status, or a
\* channel that ends without an exit status, gives an I/O error.
C20_FsCommandFailureReported ==
    (fsOp.op \in {"copy_file", "remove_dir_recursively"} /\ fsOp.res = "Ok")
        => LastExitStatus(chanLog) = Some(0)

\* C21: on the SFTP-backed backends exists(p) returns Ok(true) for every
\* existing file or directory, Ok(false) only when the stat failed with
\* not-found, and an I/O error when the stat failed for any other reason.
C21_ExistsReportsStatFailure ==
    fsOp.op = "exists"
        => /\ fsOp.arg \in {"dir", "file"} => (fsOp.res = "Ok" /\ fsOp.out = Some(TRUE))
           /\ (fsOp.res = "Ok" /\ fsOp.out = Some(FALSE)) => fsOp.arg = "no_such_file"
           /\ fsOp.arg \in {"permission_denied", "transport"} => fsOp.res = "IO"

\* the escaped arguments separated by single spaces, no trailing space
RECURSIVE EscapedArgs(_)
EscapedArgs(args) ==
    IF Len(args) = 1 THEN escape(args[1])
    ELSE EscapedArgs(SubSeq(args, 1, Len(args) - 1)) \o <<" ">> \o escape(args[Len(args)])

RECURSIVE EnvPairs(_)
EnvPairs(envs) ==
    IF envs = <<>> THEN <<>>
    ELSE EnvPairs(SubSeq(envs, 1, Len(envs) - 1))
            \o envs[Len(envs)].key \o <<"=">> \o envs[Len(envs)].value \o <<" ">>

\* C22: the desugared command is '(' sections joined by ' && ' ')': the
\* 'cd <working_dir>' section only if a working directory is set, then
\* 'echo $$ > <pid_file>', then the K=V pairs each followed by a space,
\* 'exec <program>' and, only if there are arguments, a space and the
\* escaped arguments separated by single spaces without a trailing space;
\* the returned pid file is the one in the command. The pairs come in some
\* order of the map.
C22_DesugaredShape ==
    desugared.some =>
      \E order \in IterationOrders(pcfg.envs) :
        desugared.v.command =
            <<"(">>
            \o (IF pcfg.working_dir.some
                THEN <<"c", "d", " ">> \o pcfg.working_dir.v \o <<" ", "&", "&", " ">>
                ELSE <<>>)
            \o <<"e", "c", "h", "o", " ", "$", "$", " ", ">", " ">> \o desugared.v.pid_file
            \o <<" ", "&", "&", " ">>
            \o EnvPairs(order)
            \o <<"e", "x", "e", "c", " ">> \o pcfg.program
            \o (IF pcfg.args # <<>> THEN <<" ">> \o EscapedArgs(pcfg.args) ELSE <<>>)
            \o <<")">>

\* Word splitting and quote removal of a POSIX shell on s from position i:
\* unquoted spaces separate words, '...' keeps every character, a backslash
\* outside quotes keeps the next character; any other unquoted character
\* outside the whitelist would be interpreted by the shell ("<meta>"), and
\* a quote left open is "<open>".
RECURSIVE ShellWords(_, _, _, _, _, _)
ShellWords(s, i, quoted, cur, has, acc) ==
    IF i > Len(s) THEN
        IF quoted THEN acc \o <<cur \o <<"<open>">>>>
        ELSE IF has THEN acc \o <<cur>> ELSE acc
    ELSE IF quoted THEN
        IF s[i] = "'" THEN ShellWords(s, i + 1, FALSE, cur, TRUE, acc)
        ELSE ShellWords(s, i + 1, TRUE, cur \o <<s[i]>>, TRUE, acc)
    ELSE IF s[i] = " " THEN
        ShellWords(s, i + 1, FALSE, <<>>, FALSE, IF has THEN acc \o <<cur>> ELSE acc)
    ELSE IF s[i] = "'" THEN ShellWords(s, i + 1, TRUE, cur, TRUE, acc)
    ELSE IF s[i] = "\\" /\ i < Len(s) THEN
        ShellWords(s, i + 2, FALSE, cur \o <<s[i + 1]>>, TRUE, acc)
    ELSE IF s[i] \in Whitelisted \cup {"e", "x", "c"} THEN
        ShellWords(s, i + 1, FALSE, cur \o <<s[i]>>, TRUE, acc)
    ELSE ShellWords(s, i + 1, FALSE, cur \o <<"<meta>">>, TRUE, acc)

\* the exec section of a desugared command: what follows the last ' && '
\* the desugarer wrote, without the closing parenthesis
ExecPartOf(config, d) ==
    LET before == 1 + (IF config.working_dir.some THEN 3 + Len(config.working_dir.v) + 4 ELSE 0)
                    + 10 + Len(d.pid_file) + 4
    IN  SubSeq(d.command, before + 1, Len(d.command) - 1)

C22_Witness ==
    /\ desugared.some
    /\ pcfg.working_dir.some
    /\ Cardinality(pcfg.envs) = 2
    /\ ExecPartOf(pcfg, desugared.v)[1] = "w"
    /\ pcfg.args = << <<"a">>, <<"'", " ">> >>

RECURSIVE EnvWords(_)
EnvWords(envs) ==
    IF envs = <<>> THEN <<>>
    ELSE <<envs[1].key \o <<"=">> \o envs[1].value>> \o EnvWords(Tail(envs))

\* C23: parsed by a POSIX shell, the exec section of the desugared command
\* gives the environment assignments, the word exec, the program and then
\* exactly the configured arguments: every argument survives byte for byte.
C23_ArgvPreserved ==
    desugared.some =>
      \E order \in IterationOrders(pcfg.envs) :
        ShellWords(ExecPartOf(pcfg, desugared.v), 1, FALSE, <<>>, FALSE, <<>>)
            = EnvWords(order) \o << <<"e", "x", "e", "c">>, pcfg.program >> \o pcfg.args

C23_Witness ==
    /\ desugared.some
    /\ pcfg.args = << <<"'", " ", "$">> >>
    /\ ExecPartOf(pcfg, desugared.v)
          = <<"e", "x", "e", "c", " ", "p", " ", "'", "'", "\\", "'", "'", " ", "$", "'">>

\* C25: execute on the native and on the proxy-SSH backend leaves the
\* capture fabric as it was before the call (no buffer registered, appended
\* to or removed, no capture task), runs no PID discovery, and returns an
\* output built from the one-shot output of the spawned command alone.
C25_ExecuteBypassesFabric ==
    (call = "execute" /\ backend \in {"native", "openssh"})
        => /\ STDOUT_BUFFERS = EmptyMap
           /\ STDERR_BUFFERS = EmptyMap
           /\ STDEXT_BUFFERS = EmptyMap
           /\ capture = [out |-> "none", err |-> "none"]
           /\ pollAttempts = 0
           /\ pid_option = None
           /\ pc = "done" =>
                /\ result.kind = "output"
                /\ result.stdout \in {accOut, <<>>}
                /\ result.stderr \in {accErr, <<>>}
                /\ result.stdout_extended = EmptyMap

C25_Witness ==
    /\ call = "execute" /\ backend = "openssh" /\ pc = "done"
    /\ result.stdout # <<>>
    /\ result.stdout = progOut
    /\ pidFile.exists
    /\ STDOUT_BUFFERS = EmptyMap

IsPrefix(a, b) == Len(a) <= Len(b) /\ SubSeq(b, 1, Len(a)) = a

\* every stream of snapshot a is a prefix of the same stream of snapshot b
SnapshotPrefix(a, b) ==
    /\ IsPrefix(a.stdout, b.stdout)
    /\ IsPrefix(a.stderr, b.stderr)
    /\ \A e \in DOMAIN a.stdout_extended :
          /\ e \in DOMAIN b.stdout_extended
          /\ IsPrefix(a.stdout_extended[e], b.stdout_extended[e])

\* C26: of any two snapshots taken from the same live handle, whatever the
\* capture appends in between, the stdout, the stderr and each extended
\* stream of the earlier one is a prefix of that of the later one.
C26_SnapshotsGrow ==
    \A i, j \in 1..Len(snaps) : i < j => SnapshotPrefix(snaps[i], snaps[j])

C26_Witness ==
    /\ Len(snaps) = 2
    /\ snaps[1].stdout # <<>>
    /\ Len(snaps[2].stdout) > Len(snaps[1].stdout)

\* C27: no two concurrently live proxy-SSH handles share a synthetic id,
\* and ids are handed out in strictly increasing order of allocation,
\* whatever the number of allocations from the 32-bit counter.
C27_SyntheticIdsUnique ==
    \A a, b \in 1..MaxHandles :
        /\ (a # b /\ handles[a].state = "live" /\ handles[b].state = "live")
              => handles[a].id # handles[b].id
        /\ (HasId(a) /\ HasId(b) /\ handles[a].ord < handles[b].ord)
              => U32Less(handles[a].id, handles[b].id)

\* C28: on one library-SSH instance at most one shell-out filesystem
\* command uses the filesystem channel at any time (the caller holding the
\* channel mutex), and each call reads only the channel messages produced
\* by its own command.
C28_FsChannelSerialized ==
    /\ \A a, b \in 1..MaxCallers :
          (callers[a].pc \in {"exec", "loop"} /\ callers[b].pc \in {"exec", "loop"}) => a = b
    /\ \A c \in 1..MaxCallers :
          /\ callers[c].pc \in {"exec", "loop"} => fsLock = c
          /\ callers[c].read \subseteq {c}

C28_Witness ==
    /\ callers[1].pc = "done" /\ callers[1].read = {1} /\ callers[1].code = Some(0)
    /\ callers[2].pc = "loop" /\ fsLock = 2

\* C29: on every backend open_file(p, opts) hands to the underlying open
\* exactly the flags set in opts; a missing file is created only when
\* opts.create is set, and opening a missing path with write and truncate
\* but without create fails.
C29_OpenFlagsExact ==
    (fileCall.op = "open_file" /\ fileCall.res # "panic")
        => /\ fileCall.flags = fileCall.opts
           /\ fileCall.out = "created" => "create" \in fileCall.opts
           /\ (fileCall.arg = "none" /\ {"write", "truncate"} \subseteq fileCall.opts
                 /\ "create" \notin fileCall.opts) => fileCall.res # "Ok"

\* C30: on every backend, once create_symlink(src, dst) has succeeded,
\* read_link(dst) returns src and get_symlink_metadata(dst) reports the
\* file type Symlink.
C30_SymlinkEstablished ==
    (fileCall.op = "create_symlink" /\ fileCall.res = "Ok")
        => /\ read_link_result(backend, files, fileCall.path) = [res |-> "Ok", out |-> fileCall.arg]
           /\ get_symlink_metadata_result(backend, files, fileCall.path)
                 = [res |-> "Ok", out |-> "Symlink"]

C30_Witness ==
    /\ backend = "russh"
    /\ fileCall.op = "create_symlink"
    /\ fileCall.res = "Ok"
    /\ fileCall.arg # fileCall.path
    /\ files[fileCall.arg].kind = "file"

\* C31: for a native process started through begin_execute with
\* redirect_stderr, what the child writes to stderr never reaches the
\* stdout buffer registered under its PID, and once the stderr capture task
\* has read the whole pipe the stderr buffer holds the stderr line followed
\* by a newline.
C31_NativeStderrCaptured ==
    (backend = "native" /\ call = "begin_execute" /\ pid_option.some /\ cfg.redirect_stderr)
        => /\ \A i \in 1..Len(GetOrEmpty(STDOUT_BUFFERS, Key)) :
                 GetOrEmpty(STDOUT_BUFFERS, Key)[i] \notin ErrBytes
           /\ (HasStderrEntry /\ capture.err = "ended" /\ pipeErr = <<>> /\ progErr # <<>>)
                 => STDERR_BUFFERS[Key] = progErr \o <<NL>>

\* the payload bytes of the extended-data stream e, in delivery order
ExtPayloads(e) ==
    LET sel == SelectSeq(progExt, LAMBDA x : x[1] = e)
    IN  [i \in 1..Len(sel) |-> sel[i][2]]

\* C32: on library-SSH the output of a live handle holds, in delivery
\* order, every data payload of its channel in stdout, every extended-data
\* payload with ext = 1 in stderr and every one with ext >= 2 in
\* stdout_extended[ext]; a stream the configuration did not redirect is
\* empty in the output; every payload was passed on to the inner handler.
C32_PayloadsRouted ==
    (backend = "russh" /\ call = "begin_execute" /\ handle = "live")
        => LET output == fetch_process_output(Key)
           IN  /\ output.stdout = IF cfg.redirect_stdout THEN progOut ELSE <<>>
               /\ output.stderr = IF cfg.redirect_stderr THEN progErr ELSE <<>>
               /\ \A e \in ExtStreams :
                     IF ExtPayloads(e) = <<>> THEN e \notin DOMAIN output.stdout_extended
                     ELSE /\ e \in DOMAIN output.stdout_extended
                          /\ output.stdout_extended[e] = ExtPayloads(e)
               /\ inner.data = progOut
               /\ inner.extended_data[STDERR_EXT] = progErr
               /\ \A e \in ExtStreams : inner.extended_data[e] = ExtPayloads(e)

\* C33: on library-SSH and proxy-SSH, under weak fairness and a responsive
\* remote, every begin_execute call eventually returns, also when the
\* remote command ends before the handoff file is written.
C33_BeginExecuteReturns ==
    (call = "begin_execute" /\ handle = "none") ~> (handle # "none")

\* the call is inside its PID discovery loop
Polling(t) ==
    /\ Running(t) /\ ~AtEnd(t)
    /\ \E j \in tasks[t].ip..Len(ProgramOf(t)) :
          ProgramOf(t)[j].i = "loop" /\ j - ProgramOf(t)[j].n <= tasks[t].ip

\* the call is about to take mutex m
AtLock(t, m) == Running(t) /\ ~AtEnd(t) /\ Instr(t) = Lock(m)

\* C34: on one library-SSH instance, while a begin_execute call is polling
\* for its PID, another begin_execute, execute or send_signal call that is
\* about to open its channel can go on.
C34_PollingDoesNotBlock ==
    \A a, b \in 1..MaxTasks :
        (backend = "russh" /\ a # b /\ tasks[a].op = "begin_execute" /\ Polling(a)
            /\ AtLock(b, <<"handle_mutex", 0>>))
            => ENABLED Task_lock(b)

\* C38: no call on a library-SSH or proxy-SSH instance waits for one of the
\* instance's mutexes while it holds another one, and a mutex is held by
\* the one call that locked it; so some call that has not returned can
\* always take a step.
C38_NoNestedLocks ==
    /\ \A t \in 1..MaxTasks :
          (Running(t) /\ ~AtEnd(t) /\ Instr(t).i = "lock") => tasks[t].held = {}
    /\ \A m \in Mutexes : mtx[m] # 0 => m \in tasks[mtx[m]].held
    /\ (\E t \in 1..MaxTasks : Running(t))
          => \E t \in 1..MaxTasks :
                ENABLED (Task_lock(t) \/ Task_unlock(t) \/ Task_await(t)
                            \/ Task_loop(t) \/ Task_return(t))

\* one call waits for a mutex that another call holds
C38_Witness ==
    \E a, b \in 1..MaxTasks :
        /\ a # b
        /\ Running(b) /\ ~AtEnd(b) /\ Instr(b).i = "lock"
        /\ mtx[Instr(b).m] = a
        /\ Running(a)


\* C35: on one library-SSH instance every copy_file / remove_dir_recursively
\* call runs its command on the remote: a call that has returned is a call
\* whose command the server started, the first on the shared filesystem
\* channel as well as every later one.
C35_EveryFsCommandRuns ==
    \A c \in 1..MaxCallers : callers[c].pc = "done" => fsServer.cmd = c


\* a buffer as a snapshot may see it: empty, or complete lines only
WholeLines(buf) == buf = <<>> \/ buf[Len(buf)] = NL

\* C37: on the native and the proxy-SSH backend every snapshot of a stdout
\* or stderr buffer is empty or ends with a newline, and so is every such
\* buffer of the fabric between any two steps of the capture tasks: a
\* captured line and its newline become visible together.
C37_SnapshotsHoldWholeLines ==
    backend \in {"native", "openssh"}
        => /\ \A i \in 1..Len(snaps) : WholeLines(snaps[i].stdout) /\ WholeLines(snaps[i].stderr)
           /\ \A k \in DOMAIN STDOUT_BUFFERS : WholeLines(STDOUT_BUFFERS[k])
           /\ \A k \in DOMAIN STDERR_BUFFERS : WholeLines(STDERR_BUFFERS[k])

C37_Witness ==
    /\ backend \in {"native", "openssh"}
    /\ Len(snaps) = 2
    /\ snaps[1].stdout # <<>>
    /\ Len(snaps[2].stdout) > Len(snaps[1].stdout)
    /\ capture.out = "running"


\* no byte of the earlier launch in the stream
OwnBytesOnly(stream) == \A i \in 1..Len(stream) : stream[i] \notin EarlierBytes

\* C36: the output reported for a handle holds only bytes of the handle's
\* own process: a buffer that an earlier process left in the fabric under
\* the same key contributes no byte to any stream of any snapshot.
C36_OnlyOwnOutput ==
    \A i \in 1..Len(snaps) :
        /\ OwnBytesOnly(snaps[i].stdout)
        /\ OwnBytesOnly(snaps[i].stderr)
        /\ \A e \in DOMAIN snaps[i].stdout_extended : OwnBytesOnly(snaps[i].stdout_extended[e])


\* C39: on one terminal channel a register_event_receiver call returns Ok
\* only when it put its receiver into an empty slot, so no registered
\* receiver is replaced, also with registrations running concurrently; it
\* fails with EventReceiverAlreadyExists only when one is registered; and
\* unregister_event_receiver fails with EventReceiverMissing exactly when
\* it found none registered.
C39_ReceiverNeverReplaced ==
    \A r \in 1..MaxRegs :
        /\ (regCalls[r].op = "register" /\ regCalls[r].res = "Ok") => regCalls[r].old = 0
        /\ (regCalls[r].op = "register" /\ regCalls[r].res = "EventReceiverAlreadyExists")
              => regCalls[r].seen # 0
        /\ (regCalls[r].op = "unregister" /\ regCalls[r].pc = "done")
              => (regCalls[r].res = "EventReceiverMissing" <=> regCalls[r].seen = 0)

====
